---- MODULE Spec2Model ----
(***************************************************************************)
(* Order-management and access-control core of shester1kov/myproject       *)
(* (gin handlers over a gorm/PostgreSQL store).                            *)
(*                                                                         *)
(* The store is one record `db` of tables.  Every handler is a sequence of *)
(* steps, one step per store call, run by a worker; workers interleave     *)
(* between store calls.  A store call made through services.DB takes       *)
(* effect immediately (autocommit); a call made through a transaction      *)
(* handle tx is appended to the worker's transaction and takes effect at   *)
(* Commit, all calls together.  Reads through tx see the committed tables  *)
(* plus the transaction's own writes (READ COMMITTED).  Row locks are not  *)
(* modelled: a write that PostgreSQL would delay until another transaction *)
(* ends is re-validated when its own transaction commits.                  *)
(*                                                                         *)
(* Store errors are injected at the calls whose error the code tells apart *)
(* from "no such row": writes, Begin, Commit and the AVG query.  A lookup  *)
(* (First) reports an error exactly when no row matches.  Path and body    *)
(* binding is assumed to have succeeded (arguments arrive type-checked).   *)
(***************************************************************************)
EXTENDS Integers, Sequences, FiniteSets, TLC

\* ---------------------------------------------------------------- bounds
MaxReq == 3      \* requests handled one after another in one behaviour
MaxFail == 1     \* store errors injected in one behaviour

Workers == {1, 2}
ClaimUsers == {1, 2}             \* user_id carried by a verified credential
OrderIdArgs == {1, 2}            \* :id of /orders/:id
ProductIdArgs == {1, 2, 3}       \* product ids in requests; 3 never exists
Quantities == {0, 1, 2}          \* quantity in request bodies (never validated on add)
ItemLists ==
  { <<>>,
    << [product |-> 1, quantity |-> 2] >>,
    << [product |-> 1, quantity |-> 1], [product |-> 2, quantity |-> 0] >>,
    << [product |-> 2, quantity |-> 1], [product |-> 3, quantity |-> 1] >>,
    << [product |-> 1, quantity |-> 1], [product |-> 1, quantity |-> 2] >> }

Ratings == {1, 2, 6}              \* rating in a review body; 6 is out of range
Roles == {"user", "admin"}       \* role carried by a verified credential
\* Product bodies bound by CreateProduct / UpdateProduct (no id, no rating).
ProductBodies ==
  { [name |-> "gel", categoryID |-> 1, price |-> 7, manufacturer |-> "zen"],
    [name |-> "gel", categoryID |-> 1, price |-> 0, manufacturer |-> "zen"],
    [name |-> "", categoryID |-> 9, price |-> 0, manufacturer |-> ""],
    [name |-> "", categoryID |-> 0, price |-> 3, manufacturer |-> ""] }

UserIdArgs == {1, 2, 3}          \* :id of /users/:id/role; 3 never exists
Usernames == {"ann", "cat", "x"}   \* taken, free, shorter than 2
OldPasswords == {"secret1", "wrong"}
NewPasswords == {"secret2", "short"}   \* "short" is shorter than 6

\* Time is counted in milliseconds; token expiries are whole Unix seconds.
Second == 1000
RefreshWindow == 120 * Second      \* 120*time.Second in Refresh
TokenLifetime == 600 * Second      \* 10*time.Minute in GenerateToken
PresentedExpiry == 1000            \* ExpiresAt of the credentials presented
\* Clock readings at which a Refresh request arrives, around the two edges
\* (120 s before the expiry, and the expiry itself).
Arrivals ==
  { PresentedExpiry * Second + ms :
      ms \in { 0 - 121000, 0 - 120400, 0 - 120000, 0 - 119600,
               0 - 400, 0, 600, 1000, 1400 } }
\* Time that passes between two clock readings of one request.
Delays == {0, 400}

Deadline == 2 * Second           \* context.WithTimeout(..., 2*time.Second)
\* Time one store call of a list read needs when nothing stops it.
Durations == {0, 900, 1200, 2100}
\* What a store call stopped by its context reports: the sentinel
\* context.DeadlineExceeded itself, or a driver error that wraps it.
DeadlineErrors == {"context deadline exceeded", "timeout: context deadline exceeded"}

Manufacturers == {"", "nova"}    \* ?manufacturer= of the bulk update; "" is refused

\* Query parameters of GET /admin/orders, as the strings gin hands over.
Pages == {"1", "2", "0", "x"}          \* page; "x" is not a number
Limits == {"1", "-1", "x"}             \* limit
Sorts == {"id", "user_id"}             \* sort
Directions == {"desc", "up"}           \* order; "up" is neither asc nor desc
UserFilters == {"", "1"}               \* user_id; "" is no filter
OrderFilters == {"", "2"}              \* order_id

VARIABLES
  db,      \* the committed tables
  seq,     \* the tables' id sequences (not transactional)
  pc,      \* per worker: position in its handler
  req,     \* per worker: the bound request
  loc,     \* per worker: the handler's local variables
  tx,      \* per worker: the handler's transaction
  resp,    \* per worker: the responses written to the gin context
  pre,     \* per worker: tables and error count when the request arrived (history)
  fails,   \* store errors injected so far
  left     \* per worker: requests it will still take

vars == <<db, seq, pc, req, loc, tx, resp, pre, fails, left>>

\* ------------------------------------------------------------ the store
\* models.User / Product / Order / OrderProduct / Review rows.
Rating0 == [num |-> 0, den |-> 1]

User(username, password, role) ==
  [username |-> username, password |-> password, role |-> role]

Product(name, categoryID, price, manufacturer, rating) ==
  [name |-> name, categoryID |-> categoryID, price |-> price,
   manufacturer |-> manufacturer, rating |-> rating]

OrderProduct(orderID, productID, quantity) ==
  [orderID |-> orderID, productID |-> productID, quantity |-> quantity]

Review(userID, productID, rating) ==
  [userID |-> userID, productID |-> productID, rating |-> rating]

\* utils.HashPassword / utils.CheckPassword (bcrypt, salt left out).
HashPassword(password) == "bcrypt:" \o password
CheckPassword(hash, password) == hash = HashPassword(password)

\* models.Claims inside a token; signed tells whether the signature was made
\* with services.JwtKey.
Token(userID, username, role, exp, signed) ==
  [userID |-> userID, username |-> username, role |-> role, exp |-> exp, signed |-> signed]
NoToken == Token(0, "", "", 0, FALSE)

\* Credentials presented to Refresh.
Tokens ==
  { Token(1, "ann", role, PresentedExpiry, signed) : role \in {"user", "admin"},
                                                     signed \in BOOLEAN }

NoProduct == Product("", 0, 0, "", Rating0)
NoUser == User("", "", "")

Without(f, id) == [x \in DOMAIN f \ {id} |-> f[x]]
Upsert(f, id, row) == (id :> row) @@ f

\* Rows of order_products with the composite key (orderID, productID).
ItemsAt(d, o, p) == {it \in d.items : it.orderID = o /\ it.productID = p}
ItemsOf(d, o) == {it \in d.items : it.orderID = o}

\* Whether the store accepts a statement on tables d: primary keys, the
\* unique index on users.username, and the foreign keys AutoMigrate creates
\* from the foreignKey tags.
Check(d, wr) ==
  CASE wr.k = "createOrder" ->
         wr.id \notin DOMAIN d.orders /\ wr.userID \in DOMAIN d.users
    [] wr.k = "createItem" ->
         /\ ItemsAt(d, wr.orderID, wr.productID) = {}
         /\ wr.orderID \in DOMAIN d.orders
         /\ wr.productID \in DOMAIN d.products
    [] wr.k = "saveItem" ->
         \/ ItemsAt(d, wr.orderID, wr.productID) # {}
         \/ wr.orderID \in DOMAIN d.orders /\ wr.productID \in DOMAIN d.products
    [] wr.k = "deleteOrder" -> ItemsOf(d, wr.id) = {}
    [] wr.k = "createReview" ->
         /\ wr.id \notin DOMAIN d.reviews
         /\ wr.row.userID \in DOMAIN d.users
         /\ wr.row.productID \in DOMAIN d.products
    [] wr.k \in {"createProduct", "saveProduct"} ->
         wr.row.categoryID \in d.categories
    [] wr.k = "updateProduct" ->
         (wr.id \in DOMAIN d.products /\ wr.body.categoryID # 0)
            => wr.body.categoryID \in d.categories
    [] wr.k = "deleteOrdersOfUser" ->
         \A it \in d.items :
           ~(it.orderID \in DOMAIN d.orders /\ d.orders[it.orderID] = wr.userID)
    [] wr.k = "deleteUser" ->
         /\ \A o \in DOMAIN d.orders : d.orders[o] # wr.id
         /\ \A r \in DOMAIN d.reviews : d.reviews[r].userID # wr.id
    [] wr.k \in {"createUser", "saveUser"} ->
         \A u \in DOMAIN d.users \ {wr.id} : d.users[u].username # wr.row.username
    [] wr.k = "deleteProduct" ->
         /\ \A it \in d.items : it.productID # wr.id
         /\ \A r \in DOMAIN d.reviews : d.reviews[r].productID # wr.id
    [] OTHER -> TRUE

\* Updates(struct): only the non-zero fields of the body are written.
Updated(row, body) ==
  [row EXCEPT !.name = IF body.name # "" THEN body.name ELSE @,
              !.categoryID = IF body.categoryID # 0 THEN body.categoryID ELSE @,
              !.price = IF body.price # 0 THEN body.price ELSE @,
              !.manufacturer = IF body.manufacturer # "" THEN body.manufacturer ELSE @]

\* The tables after an accepted statement.
Effect(d, wr) ==
  CASE wr.k = "createOrder" ->
         [d EXCEPT !.orders = Upsert(@, wr.id, wr.userID)]
    [] wr.k = "createItem" ->
         [d EXCEPT !.items = @ \cup {OrderProduct(wr.orderID, wr.productID, wr.quantity)}]
    [] wr.k = "saveItem" ->
         [d EXCEPT !.items = (@ \ ItemsAt(d, wr.orderID, wr.productID))
                               \cup {OrderProduct(wr.orderID, wr.productID, wr.quantity)}]
    [] wr.k = "deleteItem" ->
         [d EXCEPT !.items = @ \ ItemsAt(d, wr.orderID, wr.productID)]
    [] wr.k = "deleteItemsOfOrder" ->
         [d EXCEPT !.items = @ \ ItemsOf(d, wr.orderID)]
    [] wr.k = "deleteOrder" ->
         [d EXCEPT !.orders = Without(@, wr.id)]
    [] wr.k = "createReview" ->
         [d EXCEPT !.reviews = Upsert(@, wr.id, wr.row)]
    [] wr.k \in {"createProduct", "saveProduct"} ->
         [d EXCEPT !.products = Upsert(@, wr.id, wr.row)]
    [] wr.k = "updateProduct" ->
         IF wr.id \in DOMAIN d.products
         THEN [d EXCEPT !.products[wr.id] = Updated(@, wr.body)]
         ELSE d
    [] wr.k = "updateManufacturer" ->
         [d EXCEPT !.products =
            [p \in DOMAIN @ |-> [@[p] EXCEPT !.manufacturer = wr.manufacturer]]]
    [] wr.k = "deleteItemsOfUser" ->
         [d EXCEPT !.items = {it \in @ : ~(it.orderID \in DOMAIN d.orders
                                           /\ d.orders[it.orderID] = wr.userID)}]
    [] wr.k = "deleteOrdersOfUser" ->
         [d EXCEPT !.orders = [o \in {x \in DOMAIN @ : @[x] # wr.userID} |-> @[o]]]
    [] wr.k = "deleteUser" ->
         [d EXCEPT !.users = Without(@, wr.id)]
    [] wr.k \in {"createUser", "saveUser"} ->
         [d EXCEPT !.users = Upsert(@, wr.id, wr.row)]
    [] wr.k = "deleteProduct" ->
         [d EXCEPT !.products = Without(@, wr.id)]
    [] OTHER -> d

RECURSIVE EffectAll(_, _)
EffectAll(d, writes) ==
  IF writes = <<>> THEN d
  ELSE EffectAll(Effect(d, Head(writes)), Tail(writes))

RECURSIVE CheckAll(_, _)
CheckAll(d, writes) ==
  IF writes = <<>> THEN TRUE
  ELSE Check(d, Head(writes)) /\ CheckAll(Effect(d, Head(writes)), Tail(writes))

\* What worker w's transaction reads: committed rows and its own writes.
View(w) == EffectAll(db, tx[w].writes)

\* ------------------------------------------------------- handler plumbing
NoTx == [status |-> "none", writes |-> <<>>]

NoBody == [name |-> "", categoryID |-> 0, price |-> 0, manufacturer |-> ""]

NoReq ==
  [op |-> "none", user |-> 0, role |-> "", entry |-> "", order |-> 0, product |-> 0,
   quantity |-> 0, items |-> <<>>, rating |-> 0, body |-> NoBody,
   target |-> 0, newRole |-> "", username |-> "", oldPassword |-> "", newPassword |-> "",
   token |-> NoToken, now |-> 0,
   password |-> "",
   page |-> "", limit |-> "", sort |-> "", direction |-> "", user_id |-> "", order_id |-> ""]

NoLoc ==
  [order |-> 0, quantity |-> 0, i |-> 0, product |-> NoProduct, review |-> 0,
   newRating |-> Rating0, user |-> NoUser,
   parsedAt |-> 0, checkedAt |-> 0, newToken |-> NoToken,
   elapsed |-> 0, timedOut |-> FALSE, err |-> "",
   pageInt |-> 0, limitInt |-> 0, total |-> 0, orders |-> <<>>]

Request(op) == [NoReq EXCEPT !.op = op]

\* A request arrives at an idle worker (AuthMiddleware has set user_id).
Arrive(w, r, start) ==
  /\ pc[w] \in {"idle", "done"}
  /\ left[w] > 0
  /\ left' = [left EXCEPT ![w] = @ - 1]
  /\ req' = [req EXCEPT ![w] = r]
  /\ loc' = [loc EXCEPT ![w] = NoLoc]
  /\ tx' = [tx EXCEPT ![w] = NoTx]
  /\ resp' = [resp EXCEPT ![w] = <<>>]
  /\ pre' = [pre EXCEPT ![w] = [db |-> db, fails |-> fails]]
  /\ pc' = [pc EXCEPT ![w] = start]

\* utils.HandleError / c.JSON: one more response on the context.
Response(code, msg, id) == [code |-> code, msg |-> msg, id |-> id]
Written(w, code, msg) == Append(resp[w], Response(code, msg, 0))

\* Write a response and return from the handler.
Reply(w, code, msg) ==
  /\ resp' = [resp EXCEPT ![w] = Written(w, code, msg)]
  /\ pc' = [pc EXCEPT ![w] = "done"]

\* A success response that carries a row id.
ReplyId(w, code, msg, id) ==
  /\ resp' = [resp EXCEPT ![w] = Append(@, Response(code, msg, id))]
  /\ pc' = [pc EXCEPT ![w] = "done"]

Goto(w, label) == pc' = [pc EXCEPT ![w] = label]

\* The store call of this step errs (connection, statement timeout, ...).
Inject == fails < MaxFail /\ fails' = fails + 1

\* tx := services.DB.Begin()
Begin(w) == tx' = [tx EXCEPT ![w] = [status |-> "open", writes |-> <<>>]]
\* tx.Rollback()
Rollback(w) == tx' = [tx EXCEPT ![w] = [status |-> "rolledback", writes |-> <<>>]]
\* a statement accepted inside tx
Stage(w, wr) == tx' = [tx EXCEPT ![w].writes = Append(@, wr)]
\* a transaction the store gave up (failed statement or failed commit)
Abort(w) == tx' = [tx EXCEPT ![w] = [status |-> "aborted", writes |-> <<>>]]

\* A statement through services.DB, outside any transaction.
Direct(wr) == Check(db, wr) /\ db' = Effect(db, wr)
Refused(wr) == ~Check(db, wr) /\ UNCHANGED <<db, fails>>

\* ------------------------------------------------------------ CreateOrder
CreateOrder(w) ==
  \E u \in ClaimUsers, items \in ItemLists :
    /\ Arrive(w, [Request("CreateOrder") EXCEPT !.user = u, !.items = items], "co_begin")
    /\ UNCHANGED <<db, seq, fails>>

CreateOrder_Begin(w) ==
  /\ pc[w] = "co_begin"
  /\ \/ /\ Inject
        /\ Reply(w, 500, "Error starting transaction")
        /\ UNCHANGED <<tx>>
     \/ /\ Begin(w)
        /\ Goto(w, "co_create")
        /\ UNCHANGED <<resp, fails>>
  /\ UNCHANGED <<db, seq, req, loc, pre, left>>

\* Mutant: the new order takes the lowest id no order holds, instead of the
\* next value of the sequence.
CreateOrder_Create_ReuseId(w) ==
  /\ pc[w] = "co_create"
  /\ LET id == CHOOSE n \in 1..(seq.orders + 1) :
                 /\ n \notin DOMAIN View(w).orders
                 /\ \A m \in 1..(n - 1) : m \in DOMAIN View(w).orders
         wr == [k |-> "createOrder", id |-> id, userID |-> req[w].user]
     IN \/ /\ Inject
           /\ Rollback(w)
           /\ Reply(w, 500, "Error creating order")
           /\ UNCHANGED <<seq, loc>>
        \/ /\ ~Check(View(w), wr)
           /\ seq' = [seq EXCEPT !.orders = seq.orders + 1]
           /\ Rollback(w)
           /\ Reply(w, 500, "Error creating order")
           /\ UNCHANGED <<fails, loc>>
        \/ /\ Check(View(w), wr)
           /\ seq' = [seq EXCEPT !.orders = seq.orders + 1]
           /\ Stage(w, wr)
           /\ loc' = [loc EXCEPT ![w].order = id, ![w].i = 1]
           /\ Goto(w, IF req[w].items = <<>> THEN "co_commit" ELSE "co_first")
           /\ UNCHANGED <<resp, fails>>
  /\ UNCHANGED <<db, req, pre, left>>

\* Mutant: the order row is inserted through services.DB instead of tx.
CreateOrder_Create_Direct(w) ==
  /\ pc[w] = "co_create"
  /\ LET id == seq.orders + 1
         wr == [k |-> "createOrder", id |-> id, userID |-> req[w].user]
     IN \/ /\ Inject
           /\ Rollback(w)
           /\ Reply(w, 500, "Error creating order")
           /\ UNCHANGED <<db, seq, loc>>
        \/ /\ Refused(wr)
           /\ seq' = [seq EXCEPT !.orders = id]
           /\ Rollback(w)
           /\ Reply(w, 500, "Error creating order")
           /\ UNCHANGED loc
        \/ /\ Direct(wr)
           /\ seq' = [seq EXCEPT !.orders = id]
           /\ loc' = [loc EXCEPT ![w].order = id, ![w].i = 1]
           /\ Goto(w, IF req[w].items = <<>> THEN "co_commit" ELSE "co_first")
           /\ UNCHANGED <<tx, resp, fails>>
  /\ UNCHANGED <<req, pre, left>>

CreateOrder_Create(w) ==
  /\ pc[w] = "co_create"
  /\ LET id == seq.orders + 1
         wr == [k |-> "createOrder", id |-> id, userID |-> req[w].user]
     IN \/ /\ Inject
           /\ Rollback(w)
           /\ Reply(w, 500, "Error creating order")
           /\ UNCHANGED <<seq, loc>>
        \/ /\ ~Check(View(w), wr)
           /\ seq' = [seq EXCEPT !.orders = id]
           /\ Rollback(w)
           /\ Reply(w, 500, "Error creating order")
           /\ UNCHANGED <<fails, loc>>
        \/ /\ Check(View(w), wr)
           /\ seq' = [seq EXCEPT !.orders = id]
           /\ Stage(w, wr)
           /\ loc' = [loc EXCEPT ![w].order = id, ![w].i = 1]
           /\ Goto(w, IF req[w].items = <<>> THEN "co_commit" ELSE "co_first")
           /\ UNCHANGED <<resp, fails>>
  /\ UNCHANGED <<db, req, pre, left>>

CreateOrder_First(w) ==
  /\ pc[w] = "co_first"
  /\ LET p == req[w].items[loc[w].i]
     IN IF p.product \in DOMAIN View(w).products
        THEN /\ Goto(w, "co_item")
             /\ UNCHANGED <<tx, resp>>
        ELSE /\ Rollback(w)
             /\ Reply(w, 400, "Product not found")
  /\ UNCHANGED <<db, seq, req, loc, pre, fails, left>>

CreateOrder_Item(w) ==
  /\ pc[w] = "co_item"
  /\ LET p == req[w].items[loc[w].i]
         wr == [k |-> "createItem", orderID |-> loc[w].order,
                productID |-> p.product, quantity |-> p.quantity]
     IN \/ /\ Inject \/ (~Check(View(w), wr) /\ UNCHANGED fails)
           /\ Reply(w, 500, "Error creating order product")
           /\ UNCHANGED <<tx, loc>>
        \/ /\ Check(View(w), wr)
           /\ Stage(w, wr)
           /\ loc' = [loc EXCEPT ![w].i = @ + 1]
           /\ Goto(w, IF loc[w].i < Len(req[w].items) THEN "co_first" ELSE "co_commit")
           /\ UNCHANGED <<resp, fails>>
  /\ UNCHANGED <<db, seq, req, pre, left>>

\* Mutant: the commit is accepted without the foreign keys being looked at
\* again.
CreateOrder_Commit_NoForeignKey(w) ==
  /\ pc[w] = "co_commit"
  /\ \/ /\ Inject
        /\ Abort(w)
        /\ Reply(w, 500, "Error committing transaction")
        /\ UNCHANGED db
     \/ /\ db' = EffectAll(db, tx[w].writes)
        /\ tx' = [tx EXCEPT ![w] = [status |-> "committed", writes |-> <<>>]]
        /\ ReplyId(w, 200, "Order created successfully", loc[w].order)
        /\ UNCHANGED fails
  /\ UNCHANGED <<seq, req, loc, pre, left>>

CreateOrder_Commit(w) ==
  /\ pc[w] = "co_commit"
  /\ \/ /\ Inject \/ (~CheckAll(db, tx[w].writes) /\ UNCHANGED fails)
        /\ Abort(w)
        /\ Reply(w, 500, "Error committing transaction")
        /\ UNCHANGED db
     \/ /\ CheckAll(db, tx[w].writes)
        /\ db' = EffectAll(db, tx[w].writes)
        /\ tx' = [tx EXCEPT ![w] = [status |-> "committed", writes |-> <<>>]]
        /\ ReplyId(w, 200, "Order created successfully", loc[w].order)
        /\ UNCHANGED fails
  /\ UNCHANGED <<seq, req, loc, pre, left>>

\* ----------------------------------------------------------- GetOrderByID
GetOrderByID(w) ==
  \E u \in ClaimUsers, o \in OrderIdArgs :
    /\ Arrive(w, [Request("GetOrderByID") EXCEPT !.user = u, !.order = o], "go_first")
    /\ UNCHANGED <<db, seq, fails>>

\* Mutant: the lookup forgets the user_id predicate.
OwnedByAnyone(d, o, u) == o \in DOMAIN d.orders

\* WHERE id = ? AND user_id = ?
Owned(d, o, u) == o \in DOMAIN d.orders /\ d.orders[o] = u

GetOrderByID_First(w) ==
  /\ pc[w] = "go_first"
  /\ IF Owned(db, req[w].order, req[w].user)
     THEN ReplyId(w, 200, "order", req[w].order)
     ELSE Reply(w, 404, "Order not found")
  /\ UNCHANGED <<db, seq, req, loc, tx, pre, fails, left>>

\* ------------------------------------------------------ AddProductToOrder
AddProductToOrder(w) ==
  \E u \in ClaimUsers, o \in OrderIdArgs, p \in ProductIdArgs, q \in Quantities :
    /\ Arrive(w, [Request("AddProductToOrder") EXCEPT
                    !.user = u, !.order = o, !.product = p, !.quantity = q], "ap_order")
    /\ UNCHANGED <<db, seq, fails>>

AddProductToOrder_Order(w) ==
  /\ pc[w] = "ap_order"
  /\ IF Owned(db, req[w].order, req[w].user)
     THEN /\ loc' = [loc EXCEPT ![w].order = req[w].order]
          /\ Goto(w, "ap_item")
          /\ UNCHANGED resp
     ELSE /\ Reply(w, 404, "Order not found")
          /\ UNCHANGED loc
  /\ UNCHANGED <<db, seq, req, tx, pre, fails, left>>

AddProductToOrder_Item(w) ==
  /\ pc[w] = "ap_item"
  /\ LET found == ItemsAt(db, loc[w].order, req[w].product)
     IN IF found # {}
        THEN /\ \E it \in found : loc' = [loc EXCEPT ![w].quantity = it.quantity]
             /\ Goto(w, "ap_save")
        ELSE /\ Goto(w, "ap_create")
             /\ UNCHANGED loc
  /\ UNCHANGED <<db, seq, req, tx, resp, pre, fails, left>>

\* Mutant: the increment is applied to the quantity stored at the time of
\* the write (UPDATE ... SET quantity = quantity + ?).
AddProductToOrder_Save_InPlace(w) ==
  /\ pc[w] = "ap_save"
  /\ LET found == ItemsAt(db, loc[w].order, req[w].product)
         now == IF found = {} THEN 0 ELSE (CHOOSE it \in found : TRUE).quantity
         wr == [k |-> "saveItem", orderID |-> loc[w].order, productID |-> req[w].product,
                quantity |-> now + req[w].quantity]
     IN \/ /\ (Inject /\ UNCHANGED db) \/ Refused(wr)
           /\ Reply(w, 500, "Error updating product quantity")
        \/ /\ Direct(wr)
           /\ Reply(w, 200, "Product quantity updated")
           /\ UNCHANGED fails
  /\ UNCHANGED <<seq, req, loc, tx, pre, left>>

\* Mutant: the request's quantity replaces the stored one.
AddProductToOrder_Save_Overwrite(w) ==
  /\ pc[w] = "ap_save"
  /\ LET wr == [k |-> "saveItem", orderID |-> loc[w].order, productID |-> req[w].product,
                quantity |-> req[w].quantity]
     IN \/ /\ (Inject /\ UNCHANGED db) \/ Refused(wr)
           /\ Reply(w, 500, "Error updating product quantity")
        \/ /\ Direct(wr)
           /\ Reply(w, 200, "Product quantity updated")
           /\ UNCHANGED fails
  /\ UNCHANGED <<seq, req, loc, tx, pre, left>>

AddProductToOrder_Save(w) ==
  /\ pc[w] = "ap_save"
  /\ LET wr == [k |-> "saveItem", orderID |-> loc[w].order, productID |-> req[w].product,
                quantity |-> loc[w].quantity + req[w].quantity]
     IN \/ /\ (Inject /\ UNCHANGED db) \/ Refused(wr)
           /\ Reply(w, 500, "Error updating product quantity")
        \/ /\ Direct(wr)
           /\ Reply(w, 200, "Product quantity updated")
           /\ UNCHANGED fails
  /\ UNCHANGED <<seq, req, loc, tx, pre, left>>

\* Mutant: the store takes the new line item without looking at the foreign
\* keys of order_products.
AddProductToOrder_Create_NoForeignKey(w) ==
  /\ pc[w] = "ap_create"
  /\ LET wr == [k |-> "createItem", orderID |-> loc[w].order, productID |-> req[w].product,
                quantity |-> req[w].quantity]
     IN \/ /\ Inject /\ UNCHANGED db
           /\ Reply(w, 500, "Error adding product to order")
        \/ /\ db' = Effect(db, wr)
           /\ Reply(w, 200, "Product added to order")
           /\ UNCHANGED fails
  /\ UNCHANGED <<seq, req, loc, tx, pre, left>>

AddProductToOrder_Create(w) ==
  /\ pc[w] = "ap_create"
  /\ LET wr == [k |-> "createItem", orderID |-> loc[w].order, productID |-> req[w].product,
                quantity |-> req[w].quantity]
     IN \/ /\ (Inject /\ UNCHANGED db) \/ Refused(wr)
           /\ Reply(w, 500, "Error adding product to order")
        \/ /\ Direct(wr)
           /\ Reply(w, 200, "Product added to order")
           /\ UNCHANGED fails
  /\ UNCHANGED <<seq, req, loc, tx, pre, left>>

\* -------------------------------------------------- UpdateProductQuantity
UpdateProductQuantity(w) ==
  \E u \in ClaimUsers, o \in OrderIdArgs, p \in ProductIdArgs, q \in Quantities :
    /\ Arrive(w, [Request("UpdateProductQuantity") EXCEPT
                    !.user = u, !.order = o, !.product = p, !.quantity = q], "uq_quantity")
    /\ UNCHANGED <<db, seq, fails>>

UpdateProductQuantity_Quantity(w) ==
  /\ pc[w] = "uq_quantity"
  /\ IF req[w].quantity <= 0
     THEN Reply(w, 400, "Quantity must be greater than zero")
     ELSE Goto(w, "uq_order") /\ UNCHANGED resp
  /\ UNCHANGED <<db, seq, req, loc, tx, pre, fails, left>>

UpdateProductQuantity_Order(w) ==
  /\ pc[w] = "uq_order"
  /\ IF Owned(db, req[w].order, req[w].user)
     THEN /\ loc' = [loc EXCEPT ![w].order = req[w].order]
          /\ Goto(w, "uq_item")
          /\ UNCHANGED resp
     ELSE /\ Reply(w, 404, "Order not found")
          /\ UNCHANGED loc
  /\ UNCHANGED <<db, seq, req, tx, pre, fails, left>>

UpdateProductQuantity_Item(w) ==
  /\ pc[w] = "uq_item"
  /\ IF ItemsAt(db, loc[w].order, req[w].product) # {}
     THEN /\ Goto(w, "uq_save")
          /\ UNCHANGED resp
     ELSE Reply(w, 404, "Product not found in the order")
  /\ UNCHANGED <<db, seq, req, loc, tx, pre, fails, left>>

\* Mutant: the requested quantity is added to the stored one.
UpdateProductQuantity_Save_Delta(w) ==
  /\ pc[w] = "uq_save"
  /\ LET old == CHOOSE it \in ItemsAt(db, loc[w].order, req[w].product) : TRUE
         wr == [k |-> "saveItem", orderID |-> loc[w].order, productID |-> req[w].product,
                quantity |-> old.quantity + req[w].quantity]
     IN \/ /\ (Inject /\ UNCHANGED db) \/ Refused(wr)
           /\ Reply(w, 500, "Error updating product quantity")
        \/ /\ Direct(wr)
           /\ Reply(w, 200, "Product quantity updated successfully")
           /\ UNCHANGED fails
  /\ UNCHANGED <<seq, req, loc, tx, pre, left>>

UpdateProductQuantity_Save(w) ==
  /\ pc[w] = "uq_save"
  /\ LET wr == [k |-> "saveItem", orderID |-> loc[w].order, productID |-> req[w].product,
                quantity |-> req[w].quantity]
     IN \/ /\ (Inject /\ UNCHANGED db) \/ Refused(wr)
           /\ Reply(w, 500, "Error updating product quantity")
        \/ /\ Direct(wr)
           /\ Reply(w, 200, "Product quantity updated successfully")
           /\ UNCHANGED fails
  /\ UNCHANGED <<seq, req, loc, tx, pre, left>>

\* ------------------------------------------------- DeleteProductFromOrder
DeleteProductFromOrder(w) ==
  \E u \in ClaimUsers, o \in OrderIdArgs, p \in ProductIdArgs :
    /\ Arrive(w, [Request("DeleteProductFromOrder") EXCEPT
                    !.user = u, !.order = o, !.product = p], "dp_order")
    /\ UNCHANGED <<db, seq, fails>>

DeleteProductFromOrder_Order(w) ==
  /\ pc[w] = "dp_order"
  /\ IF Owned(db, req[w].order, req[w].user)
     THEN /\ loc' = [loc EXCEPT ![w].order = req[w].order]
          /\ Goto(w, "dp_delete")
          /\ UNCHANGED resp
     ELSE /\ Reply(w, 404, "Order not found")
          /\ UNCHANGED loc
  /\ UNCHANGED <<db, seq, req, tx, pre, fails, left>>

\* Mutant: the delete is scoped by order_id alone.
DeleteProductFromOrder_Delete_WholeOrder(w) ==
  /\ pc[w] = "dp_delete"
  /\ LET wr == [k |-> "deleteItemsOfOrder", orderID |-> loc[w].order]
     IN \/ /\ Inject /\ UNCHANGED db
           /\ Reply(w, 500, "Error deleting product from order")
        \/ /\ Direct(wr)
           /\ Reply(w, 200, "Product removed from order successfully")
           /\ UNCHANGED fails
  /\ UNCHANGED <<seq, req, loc, tx, pre, left>>

DeleteProductFromOrder_Delete(w) ==
  /\ pc[w] = "dp_delete"
  /\ LET wr == [k |-> "deleteItem", orderID |-> loc[w].order, productID |-> req[w].product]
     IN \/ /\ Inject /\ UNCHANGED db
           /\ Reply(w, 500, "Error deleting product from order")
        \/ /\ Direct(wr)
           /\ Reply(w, 200, "Product removed from order successfully")
           /\ UNCHANGED fails
  /\ UNCHANGED <<seq, req, loc, tx, pre, left>>

\* ------------------------------------------------------------ DeleteOrder
DeleteOrder(w) ==
  \E u \in ClaimUsers, o \in OrderIdArgs :
    /\ Arrive(w, [Request("DeleteOrder") EXCEPT !.user = u, !.order = o], "do_order")
    /\ UNCHANGED <<db, seq, fails>>

DeleteOrder_Order(w) ==
  /\ pc[w] = "do_order"
  /\ IF Owned(db, req[w].order, req[w].user)
     THEN /\ loc' = [loc EXCEPT ![w].order = req[w].order]
          /\ Goto(w, "do_items")
          /\ UNCHANGED resp
     ELSE /\ Reply(w, 404, "Order not found")
          /\ UNCHANGED loc
  /\ UNCHANGED <<db, seq, req, tx, pre, fails, left>>

DeleteOrder_Items(w) ==
  /\ pc[w] = "do_items"
  /\ LET wr == [k |-> "deleteItemsOfOrder", orderID |-> loc[w].order]
     IN \/ /\ Inject /\ UNCHANGED db
           /\ Reply(w, 500, "Error deleting order products")
        \/ /\ Direct(wr)
           /\ Goto(w, "do_delete")
           /\ UNCHANGED <<resp, fails>>
  /\ UNCHANGED <<seq, req, loc, tx, pre, left>>

DeleteOrder_Delete(w) ==
  /\ pc[w] = "do_delete"
  /\ LET wr == [k |-> "deleteOrder", id |-> loc[w].order]
     IN \/ /\ (Inject /\ UNCHANGED db) \/ Refused(wr)
           /\ Reply(w, 500, "Error deleting order")
        \/ /\ Direct(wr)
           /\ Reply(w, 200, "Order deleted successfully")
           /\ UNCHANGED fails
  /\ UNCHANGED <<seq, req, loc, tx, pre, left>>

\* ---------------------------------------------------------- RoleMiddleware
\* Mutant: the role claim is not compared with the required role.
RoleMiddleware_AnyRole(w) ==
  /\ pc[w] = "role"
  /\ Goto(w, req[w].entry)
  /\ UNCHANGED <<db, seq, req, loc, tx, resp, pre, fails, left>>

\* Runs before an admin-gated handler; req.role is the credential's claim.
RoleMiddleware(w) ==
  /\ pc[w] = "role"
  /\ IF req[w].role # "admin"
     THEN Reply(w, 403, "forbidden")
     ELSE Goto(w, req[w].entry) /\ UNCHANGED resp
  /\ UNCHANGED <<db, seq, req, loc, tx, pre, fails, left>>

\* ----------------------------------------------------------- CreateReview
CreateReview(w) ==
  \E u \in ClaimUsers, p \in ProductIdArgs, r \in Ratings :
    /\ Arrive(w, [Request("CreateReview") EXCEPT
                    !.user = u, !.product = p, !.rating = r], "cr_product")
    /\ UNCHANGED <<db, seq, fails>>

CreateReview_Product(w) ==
  /\ pc[w] = "cr_product"
  /\ IF req[w].product \notin DOMAIN db.products
     THEN /\ Reply(w, 400, "Product not found")
          /\ UNCHANGED loc
     ELSE IF req[w].rating > 5 \/ req[w].rating < 1
     THEN /\ Reply(w, 400, "Invalid rating")
          /\ UNCHANGED loc
     ELSE /\ loc' = [loc EXCEPT ![w].product = db.products[req[w].product]]
          /\ Goto(w, "cr_existing")
          /\ UNCHANGED resp
  /\ UNCHANGED <<db, seq, req, tx, pre, fails, left>>

\* Mutant: the result of the existing-review lookup is not acted on.
CreateReview_Existing_Ignored(w) ==
  /\ pc[w] = "cr_existing"
  /\ Goto(w, "cr_begin")
  /\ UNCHANGED <<db, seq, req, loc, tx, resp, pre, fails, left>>

CreateReview_Existing(w) ==
  /\ pc[w] = "cr_existing"
  /\ IF \E r \in DOMAIN db.reviews :
          /\ db.reviews[r].productID = req[w].product
          /\ db.reviews[r].userID = req[w].user
     THEN Reply(w, 400, "You already have review")
     ELSE Goto(w, "cr_begin") /\ UNCHANGED resp
  /\ UNCHANGED <<db, seq, req, loc, tx, pre, fails, left>>

CreateReview_Begin(w) ==
  /\ pc[w] = "cr_begin"
  /\ \/ /\ Inject
        /\ Reply(w, 500, "Error starting transaction")
        /\ UNCHANGED tx
     \/ /\ Begin(w)
        /\ Goto(w, "cr_create")
        /\ UNCHANGED <<resp, fails>>
  /\ UNCHANGED <<db, seq, req, loc, pre, left>>

CreateReview_Create(w) ==
  /\ pc[w] = "cr_create"
  /\ LET id == seq.reviews + 1
         wr == [k |-> "createReview", id |-> id,
                row |-> Review(req[w].user, req[w].product, req[w].rating)]
     IN \/ /\ Inject
           /\ Rollback(w)
           /\ Reply(w, 500, "Error creating review")
           /\ UNCHANGED <<seq, loc>>
        \/ /\ ~Check(View(w), wr)
           /\ seq' = [seq EXCEPT !.reviews = id]
           /\ Rollback(w)
           /\ Reply(w, 500, "Error creating review")
           /\ UNCHANGED <<fails, loc>>
        \/ /\ Check(View(w), wr)
           /\ seq' = [seq EXCEPT !.reviews = id]
           /\ Stage(w, wr)
           /\ loc' = [loc EXCEPT ![w].review = id]
           /\ Goto(w, "cr_avg")
           /\ UNCHANGED <<resp, fails>>
  /\ UNCHANGED <<db, req, pre, left>>

RECURSIVE SumRatings(_, _)
SumRatings(reviews, ids) ==
  IF ids = {} THEN 0
  ELSE LET id == CHOOSE x \in ids : TRUE
       IN reviews[id].rating + SumRatings(reviews, ids \ {id})

\* SELECT AVG(rating) ... WHERE product_id = ?, kept as an exact fraction.
Avg(d, p) ==
  LET ids == {r \in DOMAIN d.reviews : d.reviews[r].productID = p}
  IN [num |-> SumRatings(d.reviews, ids), den |-> Cardinality(ids)]

CreateReview_Avg(w) ==
  /\ pc[w] = "cr_avg"
  /\ \/ /\ Inject
        /\ Rollback(w)
        /\ Reply(w, 500, "Error getting new rating")
        /\ UNCHANGED loc
     \/ /\ loc' = [loc EXCEPT ![w].newRating = Avg(View(w), req[w].product)]
        /\ Goto(w, "cr_save")
        /\ UNCHANGED <<tx, resp, fails>>
  /\ UNCHANGED <<db, seq, req, pre, left>>

\* Mutant: the error branch of tx.Save(&product) reports without rolling back.
CreateReview_Save_NoRollback(w) ==
  /\ pc[w] = "cr_save"
  /\ LET wr == [k |-> "saveProduct", id |-> req[w].product,
                row |-> [loc[w].product EXCEPT !.rating = loc[w].newRating]]
     IN \/ /\ Inject \/ (~Check(View(w), wr) /\ UNCHANGED fails)
           /\ resp' = [resp EXCEPT ![w] = Written(w, 500, "Error updating rating")]
           /\ UNCHANGED tx
        \/ /\ Check(View(w), wr)
           /\ Stage(w, wr)
           /\ UNCHANGED <<resp, fails>>
  /\ Goto(w, "cr_commit")
  /\ UNCHANGED <<db, seq, req, loc, pre, left>>

\* tx.Save(&product) writes back the whole row read at the start; its error
\* branch rolls back and reports, but does not return.
CreateReview_Save(w) ==
  /\ pc[w] = "cr_save"
  /\ LET wr == [k |-> "saveProduct", id |-> req[w].product,
                row |-> [loc[w].product EXCEPT !.rating = loc[w].newRating]]
     IN \/ /\ Inject \/ (~Check(View(w), wr) /\ UNCHANGED fails)
           /\ Rollback(w)
           /\ resp' = [resp EXCEPT ![w] = Written(w, 500, "Error updating rating")]
        \/ /\ Check(View(w), wr)
           /\ Stage(w, wr)
           /\ UNCHANGED <<resp, fails>>
  /\ Goto(w, "cr_commit")
  /\ UNCHANGED <<db, seq, req, loc, pre, left>>

CreateReview_Commit(w) ==
  /\ pc[w] = "cr_commit"
  /\ \/ /\ tx[w].status # "open"
        /\ Reply(w, 500, "Error committing transaction")
        /\ UNCHANGED <<db, tx, fails>>
     \/ /\ tx[w].status = "open"
        /\ Inject \/ (~CheckAll(db, tx[w].writes) /\ UNCHANGED fails)
        /\ Abort(w)
        /\ Reply(w, 500, "Error committing transaction")
        /\ UNCHANGED db
     \/ /\ tx[w].status = "open"
        /\ CheckAll(db, tx[w].writes)
        /\ db' = EffectAll(db, tx[w].writes)
        /\ tx' = [tx EXCEPT ![w] = [status |-> "committed", writes |-> <<>>]]
        /\ ReplyId(w, 200, "Review created successfully", loc[w].review)
        /\ UNCHANGED fails
  /\ UNCHANGED <<seq, req, loc, pre, left>>

\* ---------------------------------------------------------- CreateProduct
CreateProduct(w) ==
  \E role \in Roles, body \in ProductBodies :
    /\ Arrive(w, [Request("CreateProduct") EXCEPT
                    !.role = role, !.entry = "cp_category", !.body = body], "role")
    /\ UNCHANGED <<db, seq, fails>>

\* Mutant: the price is not validated.
CreateProduct_Category_AnyPrice(w) ==
  /\ pc[w] = "cp_category"
  /\ IF req[w].body.categoryID \notin db.categories
     THEN Reply(w, 400, "Invalid category ID")
     ELSE Goto(w, "cp_create") /\ UNCHANGED resp
  /\ UNCHANGED <<db, seq, req, loc, tx, pre, fails, left>>

CreateProduct_Category(w) ==
  /\ pc[w] = "cp_category"
  /\ IF req[w].body.categoryID \notin db.categories
     THEN Reply(w, 400, "Invalid category ID")
     ELSE IF req[w].body.price <= 0
     THEN Reply(w, 400, "Price must be greater than 0")
     ELSE Goto(w, "cp_create") /\ UNCHANGED resp
  /\ UNCHANGED <<db, seq, req, loc, tx, pre, fails, left>>

\* The result of services.DB.Create is not looked at: 201 either way.
CreateProduct_Create(w) ==
  /\ pc[w] = "cp_create"
  /\ LET id == seq.products + 1
         b == req[w].body
         wr == [k |-> "createProduct", id |-> id,
                row |-> Product(b.name, b.categoryID, b.price, b.manufacturer, Rating0)]
     IN \/ /\ Inject /\ UNCHANGED <<db, seq>>
           /\ ReplyId(w, 201, "product", 0)
        \/ /\ Refused(wr)
           /\ seq' = [seq EXCEPT !.products = id]
           /\ ReplyId(w, 201, "product", 0)
        \/ /\ Direct(wr)
           /\ seq' = [seq EXCEPT !.products = id]
           /\ ReplyId(w, 201, "product", id)
           /\ UNCHANGED fails
  /\ UNCHANGED <<req, loc, tx, pre, left>>

\* ---------------------------------------------------------- UpdateProduct
UpdateProduct(w) ==
  \E role \in Roles, p \in ProductIdArgs, body \in ProductBodies :
    /\ Arrive(w, [Request("UpdateProduct") EXCEPT
                    !.role = role, !.entry = "up_update", !.product = p, !.body = body],
              "role")
    /\ UNCHANGED <<db, seq, fails>>

UpdateProduct_Update(w) ==
  /\ pc[w] = "up_update"
  /\ LET wr == [k |-> "updateProduct", id |-> req[w].product, body |-> req[w].body]
     IN IF req[w].body.price <= 0
        THEN /\ Reply(w, 400, "Price must be greater than 0")
             /\ UNCHANGED <<db, fails>>
        ELSE \/ /\ (Inject /\ UNCHANGED db) \/ Refused(wr)
                /\ Reply(w, 404, "Product not found")
             \/ /\ Direct(wr)
                /\ ReplyId(w, 200, "product", 0)
                /\ UNCHANGED fails
  /\ UNCHANGED <<seq, req, loc, tx, pre, left>>

\* ---------------------------------------------------------- DeleteProduct
DeleteProduct(w) ==
  \E role \in Roles, p \in ProductIdArgs :
    /\ Arrive(w, [Request("DeleteProduct") EXCEPT
                    !.role = role, !.entry = "dl_delete", !.product = p], "role")
    /\ UNCHANGED <<db, seq, fails>>

DeleteProduct_Delete(w) ==
  /\ pc[w] = "dl_delete"
  /\ LET wr == [k |-> "deleteProduct", id |-> req[w].product]
     IN \/ /\ (Inject /\ UNCHANGED db) \/ Refused(wr)
           /\ Reply(w, 404, "Product not found")
        \/ /\ Direct(wr)
           /\ Reply(w, 200, "product deleted")
           /\ UNCHANGED fails
  /\ UNCHANGED <<seq, req, loc, tx, pre, left>>

\* --------------------------------------------------------- UpdateUserName
UpdateUserName(w) ==
  \E u \in ClaimUsers, n \in Usernames :
    /\ Arrive(w, [Request("UpdateUserName") EXCEPT !.user = u, !.username = n], "un_taken")
    /\ UNCHANGED <<db, seq, fails>>

\* Where("username = ?").First(&existingUser): err == nil means taken.
UpdateUserName_Taken(w) ==
  /\ pc[w] = "un_taken"
  /\ IF \E u \in DOMAIN db.users : db.users[u].username = req[w].username
     THEN Reply(w, 409, "Username already taken")
     ELSE Goto(w, "un_user") /\ UNCHANGED resp
  /\ UNCHANGED <<db, seq, req, loc, tx, pre, fails, left>>

UpdateUserName_User(w) ==
  /\ pc[w] = "un_user"
  /\ IF req[w].user \notin DOMAIN db.users
     THEN Reply(w, 404, "User not found") /\ UNCHANGED loc
     ELSE IF Len(req[w].username) < 2
     THEN Reply(w, 400, "Username length is less then 2") /\ UNCHANGED loc
     ELSE /\ loc' = [loc EXCEPT ![w].user = db.users[req[w].user]]
          /\ Goto(w, "un_save")
          /\ UNCHANGED resp
  /\ UNCHANGED <<db, seq, req, tx, pre, fails, left>>

\* Save(&user) writes every column of the row read earlier.
UpdateUserName_Save(w) ==
  /\ pc[w] = "un_save"
  /\ LET wr == [k |-> "saveUser", id |-> req[w].user,
                row |-> [loc[w].user EXCEPT !.username = req[w].username]]
     IN \/ /\ Inject \/ Refused(wr)
           /\ Reply(w, 500, "Error updating user name")
           /\ UNCHANGED db
        \/ /\ Direct(wr)
           /\ Reply(w, 200, "User name updated successfully")
           /\ UNCHANGED fails
  /\ UNCHANGED <<seq, req, loc, tx, pre, left>>

\* ----------------------------------------------------- UpdateUserPassword
UpdateUserPassword(w) ==
  \E u \in ClaimUsers, old \in OldPasswords, new \in NewPasswords :
    /\ Arrive(w, [Request("UpdateUserPassword") EXCEPT
                    !.user = u, !.oldPassword = old, !.newPassword = new], "up_user")
    /\ UNCHANGED <<db, seq, fails>>

UpdateUserPassword_User(w) ==
  /\ pc[w] = "up_user"
  /\ IF req[w].user \notin DOMAIN db.users
     THEN Reply(w, 404, "User not found") /\ UNCHANGED loc
     ELSE IF ~CheckPassword(db.users[req[w].user].password, req[w].oldPassword)
     THEN Reply(w, 401, "Old password is incorrect") /\ UNCHANGED loc
     ELSE IF Len(req[w].newPassword) < 6
     THEN Reply(w, 400, "Password length is less than 6") /\ UNCHANGED loc
     ELSE /\ loc' = [loc EXCEPT ![w].user = db.users[req[w].user]]
          /\ Goto(w, "up_save")
          /\ UNCHANGED resp
  /\ UNCHANGED <<db, seq, req, tx, pre, fails, left>>

UpdateUserPassword_Save(w) ==
  /\ pc[w] = "up_save"
  /\ LET wr == [k |-> "saveUser", id |-> req[w].user,
                row |-> [loc[w].user EXCEPT !.password = HashPassword(req[w].newPassword)]]
     IN \/ /\ Inject \/ Refused(wr)
           /\ Reply(w, 500, "Error updating password")
           /\ UNCHANGED db
        \/ /\ Direct(wr)
           /\ Reply(w, 200, "Password updated successfully")
           /\ UNCHANGED fails
  /\ UNCHANGED <<seq, req, loc, tx, pre, left>>

\* --------------------------------------------------------- UpdateUserRole
\* Registered behind RoleMiddleware("admin").
UpdateUserRole(w) ==
  \E u \in ClaimUsers, role \in Roles, t \in UserIdArgs, nr \in Roles :
    /\ Arrive(w, [Request("UpdateUserRole") EXCEPT
                    !.user = u, !.role = role, !.entry = "ur_user",
                    !.target = t, !.newRole = nr], "role")
    /\ UNCHANGED <<db, seq, fails>>

\* Mutant: the stored role of the target is not looked at.
UpdateUserRole_User_AnyRole(w) ==
  /\ pc[w] = "ur_user"
  /\ IF req[w].target \notin DOMAIN db.users
     THEN Reply(w, 404, "User not found") /\ UNCHANGED loc
     ELSE IF req[w].newRole # "admin"
     THEN Reply(w, 400, "Role can only be updated to 'admin'") /\ UNCHANGED loc
     ELSE /\ loc' = [loc EXCEPT ![w].user = db.users[req[w].target]]
          /\ Goto(w, "ur_save")
          /\ UNCHANGED resp
  /\ UNCHANGED <<db, seq, req, tx, pre, fails, left>>

UpdateUserRole_User(w) ==
  /\ pc[w] = "ur_user"
  /\ IF req[w].target \notin DOMAIN db.users
     THEN Reply(w, 404, "User not found") /\ UNCHANGED loc
     ELSE IF db.users[req[w].target].role # "user"
     THEN Reply(w, 400, "Role can only be updated from 'user' to 'admin'") /\ UNCHANGED loc
     ELSE IF req[w].newRole # "admin"
     THEN Reply(w, 400, "Role can only be updated to 'admin'") /\ UNCHANGED loc
     ELSE /\ loc' = [loc EXCEPT ![w].user = db.users[req[w].target]]
          /\ Goto(w, "ur_save")
          /\ UNCHANGED resp
  /\ UNCHANGED <<db, seq, req, tx, pre, fails, left>>

UpdateUserRole_Save(w) ==
  /\ pc[w] = "ur_save"
  /\ LET wr == [k |-> "saveUser", id |-> req[w].target,
                row |-> [loc[w].user EXCEPT !.role = "admin"]]
     IN \/ /\ Inject \/ Refused(wr)
           /\ Reply(w, 500, "Error updating user role")
           /\ UNCHANGED db
        \/ /\ Direct(wr)
           /\ Reply(w, 200, "User role updated to admin successfully")
           /\ UNCHANGED fails
  /\ UNCHANGED <<seq, req, loc, tx, pre, left>>

\* ------------------------------------------------------------- DeleteSelf
DeleteSelf(w) ==
  \E u \in ClaimUsers :
    /\ Arrive(w, [Request("DeleteSelf") EXCEPT !.user = u], "ds_user")
    /\ UNCHANGED <<db, seq, fails>>

DeleteSelf_User(w) ==
  /\ pc[w] = "ds_user"
  /\ IF req[w].user \notin DOMAIN db.users
     THEN Reply(w, 404, "User not found") /\ UNCHANGED loc
     ELSE IF db.users[req[w].user].role = "admin"
     THEN Reply(w, 403, "Administrators cannot delete themselves") /\ UNCHANGED loc
     ELSE /\ loc' = [loc EXCEPT ![w].user = db.users[req[w].user]]
          /\ Goto(w, "ds_begin")
          /\ UNCHANGED resp
  /\ UNCHANGED <<db, seq, req, tx, pre, fails, left>>

DeleteSelf_Begin(w) ==
  /\ pc[w] = "ds_begin"
  /\ \/ /\ Inject
        /\ Reply(w, 500, "Failed to start transaction")
        /\ UNCHANGED tx
     \/ /\ Begin(w)
        /\ Goto(w, "ds_items")
        /\ UNCHANGED <<resp, fails>>
  /\ UNCHANGED <<db, seq, req, loc, pre, left>>

\* tx.Where("order_id IN (SELECT id FROM orders WHERE user_id = ?)").Delete
DeleteSelf_Items(w) ==
  /\ pc[w] = "ds_items"
  /\ LET wr == [k |-> "deleteItemsOfUser", userID |-> req[w].user]
     IN \/ /\ Inject
           /\ Rollback(w)
           /\ Reply(w, 500, "Internal server error")
        \/ /\ Stage(w, wr)
           /\ Goto(w, "ds_orders")
           /\ UNCHANGED <<resp, fails>>
  /\ UNCHANGED <<db, seq, req, loc, pre, left>>

\* tx.Where("user_id = ?").Delete(&models.Order{})
DeleteSelf_Orders(w) ==
  /\ pc[w] = "ds_orders"
  /\ LET wr == [k |-> "deleteOrdersOfUser", userID |-> req[w].user]
     IN \/ /\ Inject \/ (~Check(View(w), wr) /\ UNCHANGED fails)
           /\ Rollback(w)
           /\ Reply(w, 500, "Internal sever error")
        \/ /\ Check(View(w), wr)
           /\ Stage(w, wr)
           /\ Goto(w, "ds_delete")
           /\ UNCHANGED <<resp, fails>>
  /\ UNCHANGED <<db, seq, req, loc, pre, left>>

\* Mutant: the user row is deleted through services.DB instead of tx.
DeleteSelf_Delete_Direct(w) ==
  /\ pc[w] = "ds_delete"
  /\ LET wr == [k |-> "deleteUser", id |-> req[w].user]
     IN \/ /\ Inject
           /\ Reply(w, 500, "Error deleting user")
           /\ UNCHANGED db
        \/ /\ db' = Effect(db, wr)
           /\ Goto(w, "ds_commit")
           /\ UNCHANGED <<resp, fails>>
  /\ UNCHANGED <<seq, req, loc, tx, pre, left>>

\* tx.Delete(&user); its error branch returns without Rollback, so the
\* transaction is left open and is never committed.
DeleteSelf_Delete(w) ==
  /\ pc[w] = "ds_delete"
  /\ LET wr == [k |-> "deleteUser", id |-> req[w].user]
     IN \/ /\ Inject \/ (~Check(View(w), wr) /\ UNCHANGED fails)
           /\ Reply(w, 500, "Error deleting user")
           /\ UNCHANGED tx
        \/ /\ Check(View(w), wr)
           /\ Stage(w, wr)
           /\ Goto(w, "ds_commit")
           /\ UNCHANGED <<resp, fails>>
  /\ UNCHANGED <<db, seq, req, loc, pre, left>>

DeleteSelf_Commit(w) ==
  /\ pc[w] = "ds_commit"
  /\ \/ /\ Inject \/ (~CheckAll(db, tx[w].writes) /\ UNCHANGED fails)
        /\ Abort(w)
        /\ Reply(w, 500, "Error deleting user and related data")
        /\ UNCHANGED db
     \/ /\ CheckAll(db, tx[w].writes)
        /\ db' = EffectAll(db, tx[w].writes)
        /\ tx' = [tx EXCEPT ![w] = [status |-> "committed", writes |-> <<>>]]
        /\ Reply(w, 200, "Your account has been deleted successfully")
        /\ UNCHANGED fails
  /\ UNCHANGED <<seq, req, loc, pre, left>>

\* ------------------------------------------------------------- DeleteUser
\* Registered behind RoleMiddleware("admin").
DeleteUser(w) ==
  \E u \in ClaimUsers, role \in Roles, t \in UserIdArgs :
    /\ Arrive(w, [Request("DeleteUser") EXCEPT
                    !.user = u, !.role = role, !.entry = "du_user", !.target = t], "role")
    /\ UNCHANGED <<db, seq, fails>>

\* Mutant: the stored role of the target is not looked at.
DeleteUser_User_AnyRole(w) ==
  /\ pc[w] = "du_user"
  /\ IF req[w].target \notin DOMAIN db.users
     THEN Reply(w, 404, "User not found") /\ UNCHANGED loc
     ELSE /\ loc' = [loc EXCEPT ![w].user = db.users[req[w].target]]
          /\ Goto(w, "du_begin")
          /\ UNCHANGED resp
  /\ UNCHANGED <<db, seq, req, tx, pre, fails, left>>

DeleteUser_User(w) ==
  /\ pc[w] = "du_user"
  /\ IF req[w].target \notin DOMAIN db.users
     THEN Reply(w, 404, "User not found") /\ UNCHANGED loc
     ELSE IF db.users[req[w].target].role # "user"
     THEN Reply(w, 400, "Only users with role 'user' can be deleted") /\ UNCHANGED loc
     ELSE /\ loc' = [loc EXCEPT ![w].user = db.users[req[w].target]]
          /\ Goto(w, "du_begin")
          /\ UNCHANGED resp
  /\ UNCHANGED <<db, seq, req, tx, pre, fails, left>>

DeleteUser_Begin(w) ==
  /\ pc[w] = "du_begin"
  /\ \/ /\ Inject
        /\ Reply(w, 500, "Failed to start transaction")
        /\ UNCHANGED tx
     \/ /\ Begin(w)
        /\ Goto(w, "du_items")
        /\ UNCHANGED <<resp, fails>>
  /\ UNCHANGED <<db, seq, req, loc, pre, left>>

\* tx.Where("order_id IN (SELECT id FROM orders WHERE user_id = ?)").Delete
DeleteUser_Items(w) ==
  /\ pc[w] = "du_items"
  /\ LET wr == [k |-> "deleteItemsOfUser", userID |-> req[w].target]
     IN \/ /\ Inject
           /\ Rollback(w)
           /\ Reply(w, 500, "Internal server error")
        \/ /\ Stage(w, wr)
           /\ Goto(w, "du_orders")
           /\ UNCHANGED <<resp, fails>>
  /\ UNCHANGED <<db, seq, req, loc, pre, left>>

\* tx.Where("user_id = ?").Delete(&models.Order{})
DeleteUser_Orders(w) ==
  /\ pc[w] = "du_orders"
  /\ LET wr == [k |-> "deleteOrdersOfUser", userID |-> req[w].target]
     IN \/ /\ Inject \/ (~Check(View(w), wr) /\ UNCHANGED fails)
           /\ Rollback(w)
           /\ Reply(w, 500, "Internal sever error")
        \/ /\ Check(View(w), wr)
           /\ Stage(w, wr)
           /\ Goto(w, "du_delete")
           /\ UNCHANGED <<resp, fails>>
  /\ UNCHANGED <<db, seq, req, loc, pre, left>>

\* tx.Delete(&user); its error branch returns without Rollback, so the
\* transaction is left open and is never committed.
DeleteUser_Delete(w) ==
  /\ pc[w] = "du_delete"
  /\ LET wr == [k |-> "deleteUser", id |-> req[w].target]
     IN \/ /\ Inject \/ (~Check(View(w), wr) /\ UNCHANGED fails)
           /\ Reply(w, 500, "Error deleting user")
           /\ UNCHANGED tx
        \/ /\ Check(View(w), wr)
           /\ Stage(w, wr)
           /\ Goto(w, "du_commit")
           /\ UNCHANGED <<resp, fails>>
  /\ UNCHANGED <<db, seq, req, loc, pre, left>>

DeleteUser_Commit(w) ==
  /\ pc[w] = "du_commit"
  /\ \/ /\ Inject \/ (~CheckAll(db, tx[w].writes) /\ UNCHANGED fails)
        /\ Abort(w)
        /\ Reply(w, 500, "Error deleting user and related data")
        /\ UNCHANGED db
     \/ /\ CheckAll(db, tx[w].writes)
        /\ db' = EffectAll(db, tx[w].writes)
        /\ tx' = [tx EXCEPT ![w] = [status |-> "committed", writes |-> <<>>]]
        /\ Reply(w, 200, "User and related data deleted successfully")
        /\ UNCHANGED fails
  /\ UNCHANGED <<seq, req, loc, pre, left>>

\* ------------------------------------------------------- DeleteOrderAdmin
\* Registered behind RoleMiddleware("admin").
DeleteOrderAdmin(w) ==
  \E u \in ClaimUsers, role \in Roles, o \in OrderIdArgs :
    /\ Arrive(w, [Request("DeleteOrderAdmin") EXCEPT
                    !.user = u, !.role = role, !.entry = "da_order", !.order = o], "role")
    /\ UNCHANGED <<db, seq, fails>>

DeleteOrderAdmin_Order(w) ==
  /\ pc[w] = "da_order"
  /\ IF req[w].order \in DOMAIN db.orders
     THEN /\ loc' = [loc EXCEPT ![w].order = req[w].order]
          /\ Goto(w, "da_begin")
          /\ UNCHANGED resp
     ELSE /\ Reply(w, 404, "Order not found")
          /\ UNCHANGED loc
  /\ UNCHANGED <<db, seq, req, tx, pre, fails, left>>

DeleteOrderAdmin_Begin(w) ==
  /\ pc[w] = "da_begin"
  /\ \/ /\ Inject
        /\ Reply(w, 500, "Error starting transaction")
        /\ UNCHANGED tx
     \/ /\ Begin(w)
        /\ Goto(w, "da_items")
        /\ UNCHANGED <<resp, fails>>
  /\ UNCHANGED <<db, seq, req, loc, pre, left>>

DeleteOrderAdmin_Items(w) ==
  /\ pc[w] = "da_items"
  /\ LET wr == [k |-> "deleteItemsOfOrder", orderID |-> loc[w].order]
     IN \/ /\ Inject
           /\ Rollback(w)
           /\ Reply(w, 500, "Error deleting order products")
        \/ /\ Stage(w, wr)
           /\ Goto(w, "da_delete")
           /\ UNCHANGED <<resp, fails>>
  /\ UNCHANGED <<db, seq, req, loc, pre, left>>

\* services.DB.Delete(&order): outside tx, so it takes effect at once and is
\* judged against the committed line items, which tx has not yet removed.
DeleteOrderAdmin_Delete(w) ==
  /\ pc[w] = "da_delete"
  /\ LET wr == [k |-> "deleteOrder", id |-> loc[w].order]
     IN \/ /\ (Inject /\ UNCHANGED db) \/ Refused(wr)
           /\ Rollback(w)
           /\ Reply(w, 500, "Error deleting order")
        \/ /\ Direct(wr)
           /\ Goto(w, "da_commit")
           /\ UNCHANGED <<tx, resp, fails>>
  /\ UNCHANGED <<seq, req, loc, pre, left>>

DeleteOrderAdmin_Commit(w) ==
  /\ pc[w] = "da_commit"
  /\ \/ /\ Inject \/ (~CheckAll(db, tx[w].writes) /\ UNCHANGED fails)
        /\ Abort(w)
        /\ Reply(w, 500, "Error committing transaction")
        /\ UNCHANGED db
     \/ /\ CheckAll(db, tx[w].writes)
        /\ db' = EffectAll(db, tx[w].writes)
        /\ tx' = [tx EXCEPT ![w] = [status |-> "committed", writes |-> <<>>]]
        /\ Reply(w, 200, "Order deleted successfully")
        /\ UNCHANGED fails
  /\ UNCHANGED <<seq, req, loc, pre, left>>

\* ----------------------------------------------------------- GetAllOrders
\* strconv.Atoi on the query strings in use: the number, or 0 and an error.
Atoi(s) ==
  CASE s = "0" -> [val |-> 0, ok |-> TRUE]
    [] s = "1" -> [val |-> 1, ok |-> TRUE]
    [] s = "2" -> [val |-> 2, ok |-> TRUE]
    [] s = "-1" -> [val |-> 0 - 1, ok |-> TRUE]
    [] OTHER -> [val |-> 0, ok |-> FALSE]

\* WHERE user_id = ? AND id = ?, each condition only for a non-empty parameter.
Matching(d, user_id, order_id) ==
  {o \in DOMAIN d.orders :
     /\ user_id # "" => d.orders[o] = Atoi(user_id).val
     /\ order_id # "" => o = Atoi(order_id).val}

\* The column an ORDER BY clause compares.
SortKey(d, sort, o) == IF sort = "user_id" THEN d.orders[o] ELSE o

\* The orders in which the store may return the rows of S under
\* ORDER BY sort direction: rows with equal keys come in any order.
Orderings(d, S, sort, direction) ==
  {s \in [1..Cardinality(S) -> S] :
     /\ \A i, j \in DOMAIN s : i # j => s[i] # s[j]
     /\ \A i, j \in DOMAIN s :
          i < j => IF direction = "desc"
                   THEN SortKey(d, sort, s[i]) >= SortKey(d, sort, s[j])
                   ELSE SortKey(d, sort, s[i]) <= SortKey(d, sort, s[j])}

\* The rows of s that are left by OFFSET offset (written only when positive)
\* and LIMIT limit (limited says whether the clause is written).
Window(s, offset, limited, limit) ==
  LET from == IF offset > 0 THEN offset + 1 ELSE 1
      upto == IF limited /\ from + limit - 1 < Len(s) THEN from + limit - 1 ELSE Len(s)
  IN SubSeq(s, from, upto)

\* Whether gorm writes a LIMIT clause for Limit(n): never for a negative n,
\* always for a positive one, and for 0 depending on the gorm release.
Limited(n) == IF n > 0 THEN {TRUE} ELSE IF n = 0 THEN {TRUE, FALSE} ELSE {FALSE}

\* The request of a caller whose credential carries the admin role (the
\* handler reads neither user_id nor role).
GetAllOrders(w) ==
  \E page \in Pages, limit \in Limits, sort \in Sorts,
     direction \in Directions, user_id \in UserFilters, order_id \in OrderFilters :
    /\ Arrive(w, [Request("GetAllOrders") EXCEPT
                    !.role = "admin", !.entry = "ga_atoi",
                    !.page = page, !.limit = limit, !.sort = sort,
                    !.direction = direction, !.user_id = user_id,
                    !.order_id = order_id], "role")
    /\ UNCHANGED <<db, seq, fails>>

\* Both Atoi calls: an error is answered with 400 and the handler goes on
\* with the value 0.
GetAllOrders_Atoi(w) ==
  /\ pc[w] = "ga_atoi"
  /\ LET page == Atoi(req[w].page)
         limit == Atoi(req[w].limit)
         first == IF page.ok THEN resp[w]
                  ELSE Written(w, 400, "Incorrect page number")
         second == IF limit.ok THEN first
                   ELSE Append(first, Response(400, "Incorrect limit", 0))
     IN /\ loc' = [loc EXCEPT ![w].pageInt = page.val, ![w].limitInt = limit.val]
        /\ resp' = [resp EXCEPT ![w] = second]
  /\ Goto(w, "ga_count")
  /\ UNCHANGED <<db, seq, req, tx, pre, fails, left>>

\* query.Count(&total): its error is not looked at.
GetAllOrders_Count(w) ==
  /\ pc[w] = "ga_count"
  /\ loc' = [loc EXCEPT ![w].total =
               Cardinality(Matching(db, req[w].user_id, req[w].order_id))]
  /\ Goto(w, "ga_find")
  /\ UNCHANGED <<db, seq, req, tx, resp, pre, fails, left>>

GetAllOrders_Find(w) ==
  /\ pc[w] = "ga_find"
  /\ LET direction == IF req[w].direction \in {"asc", "desc"} THEN req[w].direction ELSE "asc"
         offset == (loc[w].pageInt - 1) * loc[w].limitInt
         S == Matching(db, req[w].user_id, req[w].order_id)
     IN \/ /\ Inject
           /\ Reply(w, 500, "Error fetching orders")
           /\ UNCHANGED loc
        \/ /\ \E s \in Orderings(db, S, req[w].sort, direction),
                 limited \in Limited(loc[w].limitInt) :
                loc' = [loc EXCEPT ![w].orders = Window(s, offset, limited, loc[w].limitInt)]
           /\ Reply(w, 200, "orders")
           /\ UNCHANGED fails
  /\ UNCHANGED <<db, seq, req, tx, pre, left>>

\* --------------------------------------------------------------- Register
Register(w) ==
  \E n \in Usernames, pw \in NewPasswords :
    /\ Arrive(w, [Request("Register") EXCEPT !.username = n, !.password = pw], "rg_creds")
    /\ UNCHANGED <<db, seq, fails>>

Register_Creds(w) ==
  /\ pc[w] = "rg_creds"
  /\ IF Len(req[w].username) < 2
     THEN Reply(w, 400, "Username length is less than 2")
     ELSE IF Len(req[w].password) < 6
     THEN Reply(w, 400, "Password length is less than 6")
     ELSE Goto(w, "rg_existing") /\ UNCHANGED resp
  /\ UNCHANGED <<db, seq, req, loc, tx, pre, fails, left>>

\* Where("username = ?").First(&existingUser): a match is answered with 409,
\* and the handler goes on.
Register_Existing(w) ==
  /\ pc[w] = "rg_existing"
  /\ IF \E u \in DOMAIN db.users : db.users[u].username = req[w].username
     THEN resp' = [resp EXCEPT ![w] = Written(w, 409, "user already exists")]
     ELSE UNCHANGED resp
  /\ Goto(w, "rg_create")
  /\ UNCHANGED <<db, seq, req, loc, tx, pre, fails, left>>

\* services.DB.Create(&newUser): the id comes from the sequence, which keeps
\* the value also when the unique index on username refuses the row.
Register_Create(w) ==
  /\ pc[w] = "rg_create"
  /\ LET id == seq.users + 1
         wr == [k |-> "createUser", id |-> id,
                row |-> User(req[w].username, HashPassword(req[w].password), "user")]
     IN \/ /\ Inject /\ UNCHANGED <<db, seq>>
           /\ Reply(w, 500, "failed to register user")
        \/ /\ Refused(wr)
           /\ seq' = [seq EXCEPT !.users = id]
           /\ Reply(w, 500, "failed to register user")
        \/ /\ Direct(wr)
           /\ seq' = [seq EXCEPT !.users = id]
           /\ Reply(w, 201, "user registered successfully")
           /\ UNCHANGED fails
  /\ UNCHANGED <<req, loc, tx, pre, left>>

\* ---------------------------------------------------------------- Refresh
\* time.Time.Unix(): whole seconds.
Unix(t) == t \div Second

\* jwt.ParseWithClaims at clock reading now: the signature must verify and
\* StandardClaims.Valid accepts while now.Unix() <= ExpiresAt (a token
\* without ExpiresAt is accepted).
Valid(token, now) == token.signed /\ (token.exp = 0 \/ Unix(now) <= token.exp)

\* Mutant: the new token is issued with the default role.
GenerateToken_DefaultRole(user_id, username, role, now) ==
  Token(user_id, username, "user", Unix(now + TokenLifetime), TRUE)

\* services.GenerateToken at clock reading now (HS256 signing does not fail).
GenerateToken(user_id, username, role, now) ==
  Token(user_id, username, role, Unix(now + TokenLifetime), TRUE)

\* POST /refresh is registered outside the AuthMiddleware group.
Refresh(w) ==
  \E t \in Tokens, a \in Arrivals :
    /\ Arrive(w, [Request("Refresh") EXCEPT !.token = t, !.now = a], "rf_parse")
    /\ UNCHANGED <<db, seq, fails>>

Refresh_Parse(w) ==
  /\ pc[w] = "rf_parse"
  /\ \E d \in Delays :
       LET now == req[w].now + d
       IN /\ loc' = [loc EXCEPT ![w].parsedAt = now]
          /\ IF ~Valid(req[w].token, now)
             THEN Reply(w, 401, "unauthorized")
             ELSE Goto(w, "rf_check") /\ UNCHANGED resp
  /\ UNCHANGED <<db, seq, req, tx, pre, fails, left>>

\* Mutant: a credential with exactly 120 s left is also turned away.
Refresh_Check_AtLeast(w) ==
  /\ pc[w] = "rf_check"
  /\ \E d \in Delays :
       LET now == loc[w].parsedAt + d
       IN /\ loc' = [loc EXCEPT ![w].checkedAt = now]
          /\ IF req[w].token.exp * Second - now >= RefreshWindow
             THEN Reply(w, 400, "token not expired enough")
             ELSE Goto(w, "rf_generate") /\ UNCHANGED resp
  /\ UNCHANGED <<db, seq, req, tx, pre, fails, left>>

\* time.Unix(claims.ExpiresAt, 0).Sub(time.Now()) > 120*time.Second
Refresh_Check(w) ==
  /\ pc[w] = "rf_check"
  /\ \E d \in Delays :
       LET now == loc[w].parsedAt + d
       IN /\ loc' = [loc EXCEPT ![w].checkedAt = now]
          /\ IF req[w].token.exp * Second - now > RefreshWindow
             THEN Reply(w, 400, "token not expired enough")
             ELSE Goto(w, "rf_generate") /\ UNCHANGED resp
  /\ UNCHANGED <<db, seq, req, tx, pre, fails, left>>

Refresh_Generate(w) ==
  /\ pc[w] = "rf_generate"
  /\ \E d \in Delays :
       LET now == loc[w].checkedAt + d
           claims == req[w].token
       IN loc' = [loc EXCEPT ![w].newToken =
                    GenerateToken(claims.userID, claims.username, claims.role, now)]
  /\ Reply(w, 200, "token")
  /\ UNCHANGED <<db, seq, req, tx, pre, fails, left>>

\* --------------------------------------------- UpdateProductsManufacturer
\* Registered behind RoleMiddleware("admin").
UpdateProductsManufacturer(w) ==
  \E u \in ClaimUsers, role \in Roles, m \in Manufacturers :
    /\ Arrive(w, [Request("UpdateProductsManufacturer") EXCEPT
                    !.user = u, !.role = role, !.entry = "um_begin",
                    !.body = [NoBody EXCEPT !.manufacturer = m]], "role")
    /\ UNCHANGED <<db, seq, fails>>

UpdateProductsManufacturer_Begin(w) ==
  /\ pc[w] = "um_begin"
  /\ \/ /\ req[w].body.manufacturer = ""
        /\ Reply(w, 400, "manufacturer query parameter is required")
        /\ UNCHANGED <<tx, fails>>
     \/ /\ req[w].body.manufacturer # ""
        /\ Inject
        /\ Reply(w, 500, "Failed to start transaction")
        /\ UNCHANGED tx
     \/ /\ req[w].body.manufacturer # ""
        /\ Begin(w)
        /\ Goto(w, "um_update")
        /\ UNCHANGED <<resp, fails>>
  /\ UNCHANGED <<db, seq, req, loc, pre, left>>

\* Mutant: the statement goes through services.DB and stops after one row.
UpdateProductsManufacturer_Update_RowByRow(w) ==
  /\ pc[w] = "um_update"
  /\ \/ /\ Inject
        /\ \E p \in DOMAIN db.products :
             db' = [db EXCEPT !.products[p].manufacturer = req[w].body.manufacturer]
        /\ Rollback(w)
        /\ Reply(w, 500, "Error updating manufacturer")
     \/ /\ db' = Effect(db, [k |-> "updateManufacturer",
                             manufacturer |-> req[w].body.manufacturer])
        /\ Goto(w, "um_commit")
        /\ UNCHANGED <<tx, resp, fails>>
  /\ UNCHANGED <<seq, req, loc, pre, left>>

\* tx.Model(&models.Product{}).Where("1 = 1").Update("manufacturer", ...)
UpdateProductsManufacturer_Update(w) ==
  /\ pc[w] = "um_update"
  /\ \/ /\ Inject
        /\ Rollback(w)
        /\ Reply(w, 500, "Error updating manufacturer")
        /\ UNCHANGED db
     \/ /\ Stage(w, [k |-> "updateManufacturer",
                     manufacturer |-> req[w].body.manufacturer])
        /\ Goto(w, "um_commit")
        /\ UNCHANGED <<db, resp, fails>>
  /\ UNCHANGED <<seq, req, loc, pre, left>>

UpdateProductsManufacturer_Commit(w) ==
  /\ pc[w] = "um_commit"
  /\ \/ /\ Inject \/ (~CheckAll(db, tx[w].writes) /\ UNCHANGED fails)
        /\ Abort(w)
        /\ Reply(w, 500, "Transaction commit failed")
        /\ UNCHANGED db
     \/ /\ CheckAll(db, tx[w].writes)
        /\ db' = EffectAll(db, tx[w].writes)
        /\ tx' = [tx EXCEPT ![w] = [status |-> "committed", writes |-> <<>>]]
        /\ Reply(w, 200, "Manufacturer updated successfully")
        /\ UNCHANGED fails
  /\ UNCHANGED <<seq, req, loc, pre, left>>

\* ------------------------------------------------------------ list reads
\* query.WithContext(ctx).Find(...) started `elapsed` ms after ctx was made:
\* the call is stopped when the deadline passes before it is done, fails
\* with a store error, or completes.  The handler answers 408 only when the
\* error is the sentinel itself (err == context.DeadlineExceeded).
FindWithContext(w, failure, success) ==
  \E d \in Durations :
    \/ /\ loc[w].elapsed + d > Deadline
       /\ \E e \in DeadlineErrors :
            /\ loc' = [loc EXCEPT ![w].elapsed = IF @ > Deadline THEN @ ELSE Deadline,
                                  ![w].timedOut = TRUE,
                                  ![w].err = e]
            /\ IF e = "context deadline exceeded"
               THEN Reply(w, 408, "Request timed out")
               ELSE Reply(w, 500, failure)
       /\ UNCHANGED fails
    \/ /\ loc[w].elapsed + d <= Deadline
       /\ Inject
       /\ loc' = [loc EXCEPT ![w].elapsed = @ + d, ![w].err = "store"]
       /\ Reply(w, 500, failure)
    \/ /\ loc[w].elapsed + d <= Deadline
       /\ loc' = [loc EXCEPT ![w].elapsed = @ + d]
       /\ Reply(w, 200, success)
       /\ UNCHANGED fails

GetProductsWithTimeout(w) ==
  \E u \in ClaimUsers :
    /\ Arrive(w, [Request("GetProductsWithTimeout") EXCEPT !.user = u], "gp_count")
    /\ UNCHANGED <<db, seq, fails>>

\* query.Count(&total): runs without ctx, and its error is not looked at.
GetProductsWithTimeout_Count(w) ==
  /\ pc[w] = "gp_count"
  /\ \E d \in Durations : loc' = [loc EXCEPT ![w].elapsed = d]
  /\ Goto(w, "gp_find")
  /\ UNCHANGED <<db, seq, req, tx, resp, pre, fails, left>>

GetProductsWithTimeout_Find(w) ==
  /\ pc[w] = "gp_find"
  /\ FindWithContext(w, "Failed to fetch products", "products")
  /\ UNCHANGED <<db, seq, req, tx, pre, left>>

GetCategoriesWithTimeout(w) ==
  \E u \in ClaimUsers :
    /\ Arrive(w, [Request("GetCategoriesWithTimeout") EXCEPT !.user = u], "gc_find")
    /\ UNCHANGED <<db, seq, fails>>

GetCategoriesWithTimeout_Find(w) ==
  /\ pc[w] = "gc_find"
  /\ FindWithContext(w, "Failed to fetch categories", "categories")
  /\ UNCHANGED <<db, seq, req, tx, pre, left>>

\* ------------------------------------------------------------------ specs
Start(budget) ==
  /\ db = [users |-> (1 :> User("ann", HashPassword("secret1"), "user"))
                     @@ (2 :> User("bob", HashPassword("secret1"), "user")),
           categories |-> {1},
           products |-> (1 :> Product("whey", 1, 10, "acme", Rating0))
                        @@ (2 :> Product("bar", 1, 5, "acme", Rating0)),
           orders |-> << >>,
           items |-> {},
           reviews |-> << >>]
  /\ seq = [orders |-> 0, reviews |-> 0, users |-> 2, products |-> 2]
  /\ pc = [w \in Workers |-> "idle"]
  /\ req = [w \in Workers |-> NoReq]
  /\ loc = [w \in Workers |-> NoLoc]
  /\ tx = [w \in Workers |-> NoTx]
  /\ resp = [w \in Workers |-> <<>>]
  /\ pre = [w \in Workers |-> [db |-> db, fails |-> 0]]
  /\ fails = 0
  /\ left = budget

\* One worker takes MaxReq requests one after another.
InitSeq == Start([w \in Workers |-> IF w = 1 THEN MaxReq ELSE 0])
\* Every worker takes one request; the requests overlap.
InitOverlap == Start([w \in Workers |-> 1])

OrderStep(w) ==
  \/ CreateOrder(w) \/ CreateOrder_Begin(w) \/ CreateOrder_Create(w)
  \/ CreateOrder_First(w) \/ CreateOrder_Item(w) \/ CreateOrder_Commit(w)
  \/ GetOrderByID(w) \/ GetOrderByID_First(w)
  \/ AddProductToOrder(w) \/ AddProductToOrder_Order(w) \/ AddProductToOrder_Item(w)
  \/ AddProductToOrder_Save(w) \/ AddProductToOrder_Create(w)
  \/ UpdateProductQuantity(w) \/ UpdateProductQuantity_Quantity(w)
  \/ UpdateProductQuantity_Order(w)
  \/ UpdateProductQuantity_Item(w) \/ UpdateProductQuantity_Save(w)
  \/ DeleteProductFromOrder(w) \/ DeleteProductFromOrder_Order(w)
  \/ DeleteProductFromOrder_Delete(w)
  \/ DeleteOrder(w) \/ DeleteOrder_Order(w) \/ DeleteOrder_Items(w) \/ DeleteOrder_Delete(w)

CatalogStep(w) ==
  \/ RoleMiddleware(w)
  \/ CreateReview(w) \/ CreateReview_Product(w) \/ CreateReview_Existing(w)
  \/ CreateReview_Begin(w) \/ CreateReview_Create(w) \/ CreateReview_Avg(w)
  \/ CreateReview_Save(w) \/ CreateReview_Commit(w)
  \/ CreateProduct(w) \/ CreateProduct_Category(w) \/ CreateProduct_Create(w)
  \/ UpdateProduct(w) \/ UpdateProduct_Update(w)
  \/ DeleteProduct(w) \/ DeleteProduct_Delete(w)

UserStep(w) ==
  \/ RoleMiddleware(w)
  \/ UpdateUserName(w) \/ UpdateUserName_Taken(w) \/ UpdateUserName_User(w)
  \/ UpdateUserName_Save(w)
  \/ UpdateUserPassword(w) \/ UpdateUserPassword_User(w) \/ UpdateUserPassword_Save(w)
  \/ UpdateUserRole(w) \/ UpdateUserRole_User(w) \/ UpdateUserRole_Save(w)

\* A shop in use: ann (user) owns order 1 with two line items, bob (admin)
\* owns the empty order 2.
StartInUse(budget) ==
  /\ db = [users |-> (1 :> User("ann", HashPassword("secret1"), "user"))
                     @@ (2 :> User("bob", HashPassword("secret1"), "admin")),
           categories |-> {1},
           products |-> (1 :> Product("whey", 1, 10, "acme", Rating0))
                        @@ (2 :> Product("bar", 1, 5, "acme", Rating0)),
           orders |-> (1 :> 1) @@ (2 :> 2),
           items |-> {OrderProduct(1, 1, 2), OrderProduct(1, 2, 1)},
           reviews |-> << >>]
  /\ seq = [orders |-> 2, reviews |-> 0, users |-> 2, products |-> 2]
  /\ pc = [w \in Workers |-> "idle"]
  /\ req = [w \in Workers |-> NoReq]
  /\ loc = [w \in Workers |-> NoLoc]
  /\ tx = [w \in Workers |-> NoTx]
  /\ resp = [w \in Workers |-> <<>>]
  /\ pre = [w \in Workers |-> [db |-> db, fails |-> 0]]
  /\ fails = 0
  /\ left = budget

InitSeqInUse == StartInUse([w \in Workers |-> IF w = 1 THEN MaxReq ELSE 0])

InitOverlapInUse == StartInUse([w \in Workers |-> 1])

AccountStep(w) ==
  \/ RoleMiddleware(w)
  \/ DeleteSelf(w) \/ DeleteSelf_User(w) \/ DeleteSelf_Begin(w) \/ DeleteSelf_Items(w)
  \/ DeleteSelf_Orders(w) \/ DeleteSelf_Delete(w) \/ DeleteSelf_Commit(w)
  \/ DeleteUser(w) \/ DeleteUser_User(w) \/ DeleteUser_Begin(w) \/ DeleteUser_Items(w)
  \/ DeleteUser_Orders(w) \/ DeleteUser_Delete(w) \/ DeleteUser_Commit(w)
  \/ DeleteOrderAdmin(w) \/ DeleteOrderAdmin_Order(w) \/ DeleteOrderAdmin_Begin(w)
  \/ DeleteOrderAdmin_Items(w) \/ DeleteOrderAdmin_Delete(w) \/ DeleteOrderAdmin_Commit(w)

AuthStep(w) ==
  \/ Refresh(w) \/ Refresh_Parse(w) \/ Refresh_Check(w) \/ Refresh_Generate(w)

\* Every handler registered behind RoleMiddleware("admin") that writes.
AdminStep(w) ==
  \/ RoleMiddleware(w)
  \/ CreateProduct(w) \/ CreateProduct_Category(w) \/ CreateProduct_Create(w)
  \/ UpdateProduct(w) \/ UpdateProduct_Update(w)
  \/ DeleteProduct(w) \/ DeleteProduct_Delete(w)
  \/ UpdateProductsManufacturer(w) \/ UpdateProductsManufacturer_Begin(w)
  \/ UpdateProductsManufacturer_Update(w) \/ UpdateProductsManufacturer_Commit(w)
  \/ UpdateUserRole(w) \/ UpdateUserRole_User(w) \/ UpdateUserRole_Save(w)
  \/ DeleteUser(w) \/ DeleteUser_User(w) \/ DeleteUser_Begin(w) \/ DeleteUser_Items(w)
  \/ DeleteUser_Orders(w) \/ DeleteUser_Delete(w) \/ DeleteUser_Commit(w)
  \/ DeleteOrderAdmin(w) \/ DeleteOrderAdmin_Order(w) \/ DeleteOrderAdmin_Begin(w)
  \/ DeleteOrderAdmin_Items(w) \/ DeleteOrderAdmin_Delete(w) \/ DeleteOrderAdmin_Commit(w)

ReadStep(w) ==
  \/ GetProductsWithTimeout(w) \/ GetProductsWithTimeout_Count(w)
  \/ GetProductsWithTimeout_Find(w)
  \/ GetCategoriesWithTimeout(w) \/ GetCategoriesWithTimeout_Find(w)

\* Every handler of a single order: the owner's operations and the admin's
\* removal.
LifecycleStep(w) ==
  \/ RoleMiddleware(w)
  \/ CreateOrder(w) \/ CreateOrder_Begin(w) \/ CreateOrder_Create(w)
  \/ CreateOrder_First(w) \/ CreateOrder_Item(w) \/ CreateOrder_Commit(w)
  \/ GetOrderByID(w) \/ GetOrderByID_First(w)
  \/ AddProductToOrder(w) \/ AddProductToOrder_Order(w) \/ AddProductToOrder_Item(w)
  \/ AddProductToOrder_Save(w) \/ AddProductToOrder_Create(w)
  \/ UpdateProductQuantity(w) \/ UpdateProductQuantity_Quantity(w)
  \/ UpdateProductQuantity_Order(w)
  \/ UpdateProductQuantity_Item(w) \/ UpdateProductQuantity_Save(w)
  \/ DeleteProductFromOrder(w) \/ DeleteProductFromOrder_Order(w)
  \/ DeleteProductFromOrder_Delete(w)
  \/ DeleteOrder(w) \/ DeleteOrder_Order(w) \/ DeleteOrder_Items(w) \/ DeleteOrder_Delete(w)
  \/ DeleteOrderAdmin(w) \/ DeleteOrderAdmin_Order(w) \/ DeleteOrderAdmin_Begin(w)
  \/ DeleteOrderAdmin_Items(w) \/ DeleteOrderAdmin_Delete(w) \/ DeleteOrderAdmin_Commit(w)

\* The admin's listing, next to the handler that adds orders.
ListingStep(w) ==
  \/ RoleMiddleware(w)
  \/ GetAllOrders(w) \/ GetAllOrders_Atoi(w) \/ GetAllOrders_Count(w)
  \/ GetAllOrders_Find(w)
  \/ CreateOrder(w) \/ CreateOrder_Begin(w) \/ CreateOrder_Create(w)
  \/ CreateOrder_First(w) \/ CreateOrder_Item(w) \/ CreateOrder_Commit(w)

\* Every handler that changes more than one row.
TransactionStep(w) ==
  \/ RoleMiddleware(w)
  \/ CreateOrder(w) \/ CreateOrder_Begin(w) \/ CreateOrder_Create(w)
  \/ CreateOrder_First(w) \/ CreateOrder_Item(w) \/ CreateOrder_Commit(w)
  \/ CreateReview(w) \/ CreateReview_Product(w) \/ CreateReview_Existing(w)
  \/ CreateReview_Begin(w) \/ CreateReview_Create(w) \/ CreateReview_Avg(w)
  \/ CreateReview_Save(w) \/ CreateReview_Commit(w)
  \/ UpdateProductsManufacturer(w) \/ UpdateProductsManufacturer_Begin(w)
  \/ UpdateProductsManufacturer_Update(w) \/ UpdateProductsManufacturer_Commit(w)
  \/ DeleteSelf(w) \/ DeleteSelf_User(w) \/ DeleteSelf_Begin(w) \/ DeleteSelf_Items(w)
  \/ DeleteSelf_Orders(w) \/ DeleteSelf_Delete(w) \/ DeleteSelf_Commit(w)
  \/ DeleteUser(w) \/ DeleteUser_User(w) \/ DeleteUser_Begin(w) \/ DeleteUser_Items(w)
  \/ DeleteUser_Orders(w) \/ DeleteUser_Delete(w) \/ DeleteUser_Commit(w)
  \/ DeleteOrderAdmin(w) \/ DeleteOrderAdmin_Order(w) \/ DeleteOrderAdmin_Begin(w)
  \/ DeleteOrderAdmin_Items(w) \/ DeleteOrderAdmin_Delete(w) \/ DeleteOrderAdmin_Commit(w)
  \/ DeleteOrder(w) \/ DeleteOrder_Order(w) \/ DeleteOrder_Items(w) \/ DeleteOrder_Delete(w)

\* The handlers that write a username.
RegistrationStep(w) ==
  \/ Register(w) \/ Register_Creds(w) \/ Register_Existing(w) \/ Register_Create(w)
  \/ UpdateUserName(w) \/ UpdateUserName_Taken(w) \/ UpdateUserName_User(w)
  \/ UpdateUserName_Save(w)

\* The handlers that write line items, next to those that remove orders.
RemovalStep(w) ==
  \/ RoleMiddleware(w)
  \/ AddProductToOrder(w) \/ AddProductToOrder_Order(w) \/ AddProductToOrder_Item(w)
  \/ AddProductToOrder_Save(w) \/ AddProductToOrder_Create(w)
  \/ UpdateProductQuantity(w) \/ UpdateProductQuantity_Quantity(w)
  \/ UpdateProductQuantity_Order(w)
  \/ UpdateProductQuantity_Item(w) \/ UpdateProductQuantity_Save(w)
  \/ DeleteOrder(w) \/ DeleteOrder_Order(w) \/ DeleteOrder_Items(w) \/ DeleteOrder_Delete(w)
  \/ DeleteOrderAdmin(w) \/ DeleteOrderAdmin_Order(w) \/ DeleteOrderAdmin_Begin(w)
  \/ DeleteOrderAdmin_Items(w) \/ DeleteOrderAdmin_Delete(w) \/ DeleteOrderAdmin_Commit(w)
  \/ DeleteSelf(w) \/ DeleteSelf_User(w) \/ DeleteSelf_Begin(w) \/ DeleteSelf_Items(w)
  \/ DeleteSelf_Orders(w) \/ DeleteSelf_Delete(w) \/ DeleteSelf_Commit(w)
  \/ DeleteUser(w) \/ DeleteUser_User(w) \/ DeleteUser_Begin(w) \/ DeleteUser_Items(w)
  \/ DeleteUser_Orders(w) \/ DeleteUser_Delete(w) \/ DeleteUser_Commit(w)

\* Account removal next to promotion.
RoleChangeStep(w) ==
  \/ RoleMiddleware(w)
  \/ DeleteSelf(w) \/ DeleteSelf_User(w) \/ DeleteSelf_Begin(w) \/ DeleteSelf_Items(w)
  \/ DeleteSelf_Orders(w) \/ DeleteSelf_Delete(w) \/ DeleteSelf_Commit(w)
  \/ DeleteUser(w) \/ DeleteUser_User(w) \/ DeleteUser_Begin(w) \/ DeleteUser_Items(w)
  \/ DeleteUser_Orders(w) \/ DeleteUser_Delete(w) \/ DeleteUser_Commit(w)
  \/ UpdateUserRole(w) \/ UpdateUserRole_User(w) \/ UpdateUserRole_Save(w)

\* Account removal next to the handlers that give a user orders and line
\* items.
LeavingStep(w) ==
  \/ RoleMiddleware(w)
  \/ CreateOrder(w) \/ CreateOrder_Begin(w) \/ CreateOrder_Create(w)
  \/ CreateOrder_First(w) \/ CreateOrder_Item(w) \/ CreateOrder_Commit(w)
  \/ AddProductToOrder(w) \/ AddProductToOrder_Order(w) \/ AddProductToOrder_Item(w)
  \/ AddProductToOrder_Save(w) \/ AddProductToOrder_Create(w)
  \/ DeleteSelf(w) \/ DeleteSelf_User(w) \/ DeleteSelf_Begin(w) \/ DeleteSelf_Items(w)
  \/ DeleteSelf_Orders(w) \/ DeleteSelf_Delete(w) \/ DeleteSelf_Commit(w)
  \/ DeleteUser(w) \/ DeleteUser_User(w) \/ DeleteUser_Begin(w) \/ DeleteUser_Items(w)
  \/ DeleteUser_Orders(w) \/ DeleteUser_Delete(w) \/ DeleteUser_Commit(w)

\* The handlers whose error branches lack a return.
ErrorPathStep(w) ==
  \/ RoleMiddleware(w)
  \/ Register(w) \/ Register_Creds(w) \/ Register_Existing(w) \/ Register_Create(w)
  \/ GetAllOrders(w) \/ GetAllOrders_Atoi(w) \/ GetAllOrders_Count(w)
  \/ GetAllOrders_Find(w)
  \/ CreateReview(w) \/ CreateReview_Product(w) \/ CreateReview_Existing(w)
  \/ CreateReview_Begin(w) \/ CreateReview_Create(w) \/ CreateReview_Avg(w)
  \/ CreateReview_Save(w) \/ CreateReview_Commit(w)

OrdersNext == \E w \in Workers : OrderStep(w)
CatalogNext == \E w \in Workers : CatalogStep(w)

UsersNext == \E w \in Workers : UserStep(w)

AccountsNext == \E w \in Workers : AccountStep(w)

AuthNext == \E w \in Workers : AuthStep(w)

AdminNext == \E w \in Workers : AdminStep(w)

ReadsNext == \E w \in Workers : ReadStep(w)

LifecycleNext == \E w \in Workers : LifecycleStep(w)

ListingNext == \E w \in Workers : ListingStep(w)

TransactionsNext == \E w \in Workers : TransactionStep(w)

RegistrationNext == \E w \in Workers : RegistrationStep(w)

RemovalsNext == \E w \in Workers : RemovalStep(w)

RoleChangesNext == \E w \in Workers : RoleChangeStep(w)

LeavingNext == \E w \in Workers : LeavingStep(w)

ErrorPathsNext == \E w \in Workers : ErrorPathStep(w)

\* The order engine, one request at a time.
SeqOrders == InitSeq /\ [][OrdersNext]_vars
\* The catalog store, one request at a time.
SeqCatalog == InitSeq /\ [][CatalogNext]_vars
\* The catalog store, overlapping requests.
Catalog == InitOverlap /\ [][CatalogNext]_vars

\* The user accounts, one request at a time.
SeqUsers == InitSeq /\ [][UsersNext]_vars
\* The user accounts, overlapping requests.
Users == InitOverlap /\ [][UsersNext]_vars

\* Account and order removal on a shop in use, one request at a time.
SeqAccounts == InitSeqInUse /\ [][AccountsNext]_vars

\* Token refresh, one request at a time.
SeqAuth == InitSeq /\ [][AuthNext]_vars

\* The admin-gated operations on a shop in use, one request at a time.
SeqAdmin == InitSeqInUse /\ [][AdminNext]_vars

\* The catalog list reads, one request at a time.
SeqReads == InitSeq /\ [][ReadsNext]_vars

\* The order engine on a shop in use, overlapping requests.
Orders == InitOverlapInUse /\ [][OrdersNext]_vars

\* The admin's order listing on a shop in use, one request at a time.
SeqListing == InitSeqInUse /\ [][ListingNext]_vars

\* The multi-row mutations on a shop in use, one request at a time.
SeqTransactions == InitSeqInUse /\ [][TransactionsNext]_vars

\* Registration and renaming, overlapping requests.
Registration == InitOverlap /\ [][RegistrationNext]_vars

\* Line-item writes and order removal on a shop in use, overlapping requests.
Removals == InitOverlapInUse /\ [][RemovalsNext]_vars

\* Account removal and promotion on a shop in use, overlapping requests.
RoleChanges == InitOverlapInUse /\ [][RoleChangesNext]_vars

\* Account removal and order writes on a shop in use, overlapping requests.
Leaving == InitOverlapInUse /\ [][LeavingNext]_vars

\* Registration, the order listing and reviews on a shop in use, one request
\* at a time.
SeqErrorPaths == InitSeqInUse /\ [][ErrorPathsNext]_vars

\* The life of an order on a shop in use, one request at a time.
SeqLifecycle == InitSeqInUse /\ [][LifecycleNext]_vars

\* ----------------------------------------------------------------- claims
Finished(w, op) == pc[w] = "done" /\ req[w].op = op
Last(w) == resp[w][Len(resp[w])]
\* No store error was injected while worker w's request ran.
NoStoreError(w) == fails = pre[w].fails
Range(s) == {s[i] : i \in DOMAIN s}
\* Order o exists in tables d and its owning user is u.
IsOwner(d, o, u) == \E id \in DOMAIN d.orders : id = o /\ d.orders[id] = u

\* C1: DeleteOrder on an order the caller owns is atomic: when it has
\* returned, either the order row and all its line items are gone, or the
\* order row and all the line items it had are still present.
C1_DeleteOrderAtomic ==
  \A w \in Workers :
    (Finished(w, "DeleteOrder") /\ IsOwner(pre[w].db, req[w].order, req[w].user)) =>
      LET o == req[w].order
      IN \/ o \notin DOMAIN db.orders /\ ItemsOf(db, o) = {}
         \/ o \in DOMAIN db.orders /\ ItemsOf(db, o) = ItemsOf(pre[w].db, o)

\* C2: CreateOrder is all-or-nothing: a success commits exactly one new
\* order owned by the caller with one line item per requested item and
\* returns its id; a failure leaves the orders and line items as they were.
\* A request naming a missing product fails, with "Product not found" (400)
\* when no store error fails it first.
C2_CreateOrderAllOrNothing ==
  \A w \in Workers :
    Finished(w, "CreateOrder") =>
      LET d0 == pre[w].db
          id == loc[w].order
          items == req[w].items
          rows == {OrderProduct(id, it.product, it.quantity) : it \in Range(items)}
          missing == \E it \in Range(items) : it.product \notin DOMAIN d0.products
      IN /\ Len(resp[w]) = 1
         /\ IF Last(w).code = 200
            THEN /\ Last(w).id = id
                 /\ id \notin DOMAIN d0.orders
                 /\ db.orders = Upsert(d0.orders, id, req[w].user)
                 /\ db.items = d0.items \cup rows
                 /\ Cardinality(ItemsOf(db, id)) = Len(items)
            ELSE db.orders = d0.orders /\ db.items = d0.items
         /\ missing => Last(w).code # 200
         /\ (missing /\ NoStoreError(w)) => Last(w) = Response(400, "Product not found", 0)

\* A CreateOrder that failed on a missing product after it had already
\* staged the order row and a line item.
C2_Witness ==
  \E w \in Workers :
    /\ Finished(w, "CreateOrder")
    /\ Last(w).code = 400
    /\ loc[w].i = 2
    /\ tx[w].status = "rolledback"

\* C6: a sequential AddProductToOrder that succeeds leaves exactly one line
\* item for (order, product): with quantity n+q if one with quantity n
\* existed, with quantity q otherwise; no other line item changes, and no
\* (order, product) pair ever has two rows.
C6_AddMerges ==
  /\ \A it1, it2 \in db.items :
       (it1.orderID = it2.orderID /\ it1.productID = it2.productID) => it1 = it2
  /\ \A w \in Workers :
       (Finished(w, "AddProductToOrder") /\ Last(w).code = 200) =>
         LET o == req[w].order
             p == req[w].product
             before == ItemsAt(pre[w].db, o, p)
             n == IF before = {} THEN 0 ELSE (CHOOSE it \in before : TRUE).quantity
         IN /\ ItemsAt(db, o, p) = {OrderProduct(o, p, n + req[w].quantity)}
            /\ db.items \ ItemsAt(db, o, p) = pre[w].db.items \ before

\* The second of two successful adds of the same product to the same order.
C6_Witness ==
  \E w \in Workers :
    /\ Finished(w, "AddProductToOrder")
    /\ Last(w) = Response(200, "Product quantity updated", 0)
    /\ req[w].quantity > 0
    /\ \E it \in ItemsAt(pre[w].db, req[w].order, req[w].product) : it.quantity > 0

OrderOps ==
  {"GetOrderByID", "AddProductToOrder", "UpdateProductQuantity",
   "DeleteProductFromOrder", "DeleteOrder"}

NotOwnedRequest(w) ==
  /\ pc[w] = "done"
  /\ req[w].op \in OrderOps
  /\ ~IsOwner(pre[w].db, req[w].order, req[w].user)

\* C7 as claimed: every user-level order operation on an order that belongs
\* to another user answers NotFound, and changes nothing.
C7_NotOwnedIsNotFound ==
  \A w \in Workers :
    (NotOwnedRequest(w) /\ req[w].order \in DOMAIN pre[w].db.orders) =>
      resp[w] = << Response(404, "Order not found", 0) >> /\ db = pre[w].db

\* C7 amended: the answer for an order the caller does not own depends on
\* the request alone, so it is the same whether the order belongs to someone
\* else or does not exist: NotFound, except that UpdateProductQuantity with
\* quantity <= 0 is rejected before the lookup; it is never Forbidden and
\* nothing changes.
NotOwnedResponse(r) ==
  IF r.op = "UpdateProductQuantity" /\ r.quantity <= 0
  THEN Response(400, "Quantity must be greater than zero", 0)
  ELSE Response(404, "Order not found", 0)

C7_NotOwnedUniform ==
  \A w \in Workers :
    NotOwnedRequest(w) =>
      resp[w] = << NotOwnedResponse(req[w]) >> /\ db = pre[w].db

\* A request for an order that exists and belongs to another user.
C7_Witness ==
  \E w \in Workers :
    /\ NotOwnedRequest(w)
    /\ req[w].order \in DOMAIN pre[w].db.orders
    /\ Last(w).code = 404

\* A review by user u of product p is stored in tables d.
Reviewed(d, u, p) ==
  \E r \in DOMAIN d.reviews : d.reviews[r].userID = u /\ d.reviews[r].productID = p

\* C3: when CreateReview has inserted the review and then fails (AVG query,
\* product save or commit), the review row does not exist afterwards, the
\* products are as before, and every response written reports failure.
C3_CreateReviewAtomic ==
  \A w \in Workers :
    (Finished(w, "CreateReview") /\ loc[w].review # 0 /\ ~NoStoreError(w)) =>
      /\ loc[w].review \notin DOMAIN db.reviews
      /\ db.reviews = pre[w].db.reviews
      /\ db.products = pre[w].db.products
      /\ resp[w] # <<>>
      /\ \A r \in Range(resp[w]) : r.code = 500

\* The product save failed after the insert: rolled back, reported, and the
\* Commit that still follows reported again.
C3_Witness ==
  \E w \in Workers :
    /\ Finished(w, "CreateReview")
    /\ loc[w].review # 0
    /\ loc[w].newRating.den > 0
    /\ tx[w].status = "rolledback"
    /\ Len(resp[w]) = 2

CreateReviewInFlight(w) ==
  pc[w] \in {"cr_product", "cr_existing", "cr_begin", "cr_create", "cr_avg",
             "cr_save", "cr_commit"}

\* C4: whenever no CreateReview is in flight, every product with at least one
\* review stores the arithmetic mean of its reviews' ratings
\* (stored rating x number of reviews = sum of ratings).
C4_RatingIsMean ==
  (\A w \in Workers : ~CreateReviewInFlight(w)) =>
    \A p \in DOMAIN db.products :
      LET ids == {r \in DOMAIN db.reviews : db.reviews[r].productID = p}
      IN ids # {} =>
           db.products[p].rating.num * Cardinality(ids)
             = SumRatings(db.reviews, ids) * db.products[p].rating.den

DuplicateResponse(d, r) ==
  IF r.product \notin DOMAIN d.products THEN Response(400, "Product not found", 0)
  ELSE IF r.rating > 5 \/ r.rating < 1 THEN Response(400, "Invalid rating", 0)
  ELSE Response(400, "You already have review", 0)

PricesPositive == \A p \in DOMAIN db.products : db.products[p].price > 0

\* An admin's CreateProduct / UpdateProduct whose body has price <= 0.
NonPositivePrice(r) ==
  /\ r.op \in {"CreateProduct", "UpdateProduct"}
  /\ r.role = "admin"
  /\ r.body.price <= 0

\* Worker w takes a step of such a request.
NonPositivePriceStep(w) ==
  NonPositivePrice(req[w]) /\ pc[w] \notin {"idle", "done"} /\ pc'[w] # pc[w]

\* C10 as claimed: every product has price > 0 in every state; CreateProduct
\* and UpdateProduct with price <= 0 answer InvalidArgument and no step of
\* theirs changes any table.
C10_PriceGuardInvalidArgument ==
  /\ [](PricesPositive
        /\ \A w \in Workers :
             (pc[w] = "done" /\ NonPositivePrice(req[w])) =>
               resp[w] = << Response(400, "Price must be greater than 0", 0) >>)
  /\ [][\A w \in Workers : NonPositivePriceStep(w) => db' = db]_vars

\* C10 amended: as claimed, except that CreateProduct checks the category
\* first, so with a category that does not exist the rejection is
\* InvalidReference ("Invalid category ID") rather than InvalidArgument.
PriceRejection(d, r) ==
  IF r.op = "CreateProduct" /\ r.body.categoryID \notin d.categories
  THEN Response(400, "Invalid category ID", 0)
  ELSE Response(400, "Price must be greater than 0", 0)

C10_PriceGuard ==
  /\ [](PricesPositive
        /\ \A w \in Workers :
             (pc[w] = "done" /\ NonPositivePrice(req[w])) =>
               resp[w] = << PriceRejection(db, req[w]) >>)
  /\ [][\A w \in Workers : NonPositivePriceStep(w) => db' = db]_vars

\* An UpdateProduct with price 0 for a product that exists, rejected.
C10_Witness ==
  \E w \in Workers :
    /\ Finished(w, "UpdateProduct")
    /\ NonPositivePrice(req[w])
    /\ req[w].product \in DOMAIN db.products
    /\ Last(w).code = 400

\* The user rows after the only permitted role change of user t.
Promoted(users, t) == [users EXCEPT ![t].role = "admin"]

\* C8: an admin's UpdateUserRole (no store error) succeeds exactly when the
\* target's stored role is "user" and the requested role is "admin", and
\* then the stored role is "admin"; with any other stored / requested role
\* it answers the role-transition error and the user rows are unchanged;
\* hence a second call with "admin" on the same user fails.
C8_OnlyUserToAdmin ==
  \A w \in Workers :
    (/\ Finished(w, "UpdateUserRole")
     /\ req[w].role = "admin"
     /\ NoStoreError(w)
     /\ req[w].target \in DOMAIN pre[w].db.users) =>
      IF pre[w].db.users[req[w].target].role = "user" /\ req[w].newRole = "admin"
      THEN /\ resp[w] = << Response(200, "User role updated to admin successfully", 0) >>
           /\ db.users = Promoted(pre[w].db.users, req[w].target)
      ELSE /\ Len(resp[w]) = 1
           /\ Last(w).code = 400
           /\ Last(w).msg \in {"Role can only be updated from 'user' to 'admin'",
                               "Role can only be updated to 'admin'"}
           /\ db.users = pre[w].db.users

\* A second promotion of a user who is already admin, refused.
C8_Witness ==
  \E w \in Workers :
    /\ Finished(w, "UpdateUserRole")
    /\ req[w].role = "admin"
    /\ req[w].newRole = "admin"
    /\ req[w].target \in DOMAIN pre[w].db.users
    /\ pre[w].db.users[req[w].target].role = "admin"
    /\ Last(w).code = 400
    /\ db.users = pre[w].db.users

\* C9: no step changes a stored role from "admin" to anything else.
C9_RoleMonotonic ==
  [][\A u \in DOMAIN db.users :
       db.users[u].role = "admin" =>
         (u \in DOMAIN db'.users /\ db'.users[u].role = "admin")]_vars

\* The tables d without user u, the orders u owns and their line items.
Cascaded(d, u) ==
  LET kept == {o \in DOMAIN d.orders : d.orders[o] # u}
  IN [d EXCEPT !.users = [x \in DOMAIN d.users \ {u} |-> d.users[x]],
               !.orders = [o \in kept |-> d.orders[o]],
               !.items = {it \in d.items : it.orderID \in kept}]

\* The user an account deletion request is about.
Account(r) == IF r.op = "DeleteSelf" THEN r.user ELSE r.target

\* C11: DeleteSelf by a caller whose stored role is admin answers Forbidden,
\* DeleteUser on a target whose stored role is not "user" answers the
\* illegal-target error, and in both cases no row is deleted.
C11_DeletionGuards ==
  \A w \in Workers :
    /\ (/\ Finished(w, "DeleteSelf")
        /\ req[w].user \in DOMAIN pre[w].db.users
        /\ pre[w].db.users[req[w].user].role = "admin") =>
         /\ resp[w] = << Response(403, "Administrators cannot delete themselves", 0) >>
         /\ db = pre[w].db
    /\ (/\ Finished(w, "DeleteUser")
        /\ req[w].role = "admin"
        /\ req[w].target \in DOMAIN pre[w].db.users
        /\ pre[w].db.users[req[w].target].role # "user") =>
         /\ resp[w] = << Response(400, "Only users with role 'user' can be deleted", 0) >>
         /\ db = pre[w].db

\* An admin asked to delete another admin who owns an order; refused.
C11_Witness ==
  \E w \in Workers :
    /\ Finished(w, "DeleteUser")
    /\ req[w].role = "admin"
    /\ req[w].target \in DOMAIN pre[w].db.users
    /\ pre[w].db.users[req[w].target].role = "admin"
    /\ \E o \in DOMAIN db.orders : db.orders[o] = req[w].target
    /\ Last(w).code = 400

\* C12: an account deletion that got past its guards either answers success
\* with the user, the user's orders and their line items all gone (and
\* nothing else changed), or answers failure with every table as before.
C12_AccountDeletionAtomic ==
  \A w \in Workers :
    (/\ pc[w] = "done"
     /\ req[w].op \in {"DeleteSelf", "DeleteUser"}
     /\ loc[w].user # NoUser) =>
      \/ /\ resp[w] # <<>>
         /\ \A r \in Range(resp[w]) : r.code = 200
         /\ db = Cascaded(pre[w].db, Account(req[w]))
      \/ /\ resp[w] # <<>>
         /\ \A r \in Range(resp[w]) : r.code = 500
         /\ db = pre[w].db

\* The delete of the user row failed after the line items and orders were
\* deleted inside the transaction: reported, nothing removed.
C12_Witness ==
  \E w \in Workers :
    /\ Finished(w, "DeleteSelf")
    /\ tx[w].status = "open"
    /\ Len(tx[w].writes) = 2
    /\ Last(w).code = 500
    /\ ItemsOf(db, 1) # {}
    /\ \E o \in DOMAIN db.orders : db.orders[o] = req[w].user

\* C13: an admin's DeleteOrderAdmin on an order that exists either answers
\* success with the order row and its line items gone, or answers failure
\* with the order row and all its line items still present.
C13_AdminDeleteOrderAtomic ==
  \A w \in Workers :
    (/\ Finished(w, "DeleteOrderAdmin")
     /\ req[w].role = "admin"
     /\ req[w].order \in DOMAIN pre[w].db.orders) =>
      \/ /\ Last(w).code = 200
         /\ req[w].order \notin DOMAIN db.orders
         /\ ItemsOf(db, req[w].order) = {}
      \/ /\ Last(w).code # 200
         /\ req[w].order \in DOMAIN db.orders
         /\ ItemsOf(db, req[w].order) = ItemsOf(pre[w].db, req[w].order)

\* C14: UpdateProductQuantity answers InvalidArgument when the quantity is
\* not positive, otherwise NotFound when the caller does not own the order
\* or the order has no line item for the product; no failing call changes a
\* line item.  Otherwise (no store error) the line item's quantity becomes
\* the requested one and no other line item changes.
C14_QuantityIsAbsolute ==
  \A w \in Workers :
    Finished(w, "UpdateProductQuantity") =>
      LET o == req[w].order
          p == req[w].product
          q == req[w].quantity
          before == ItemsAt(pre[w].db, o, p)
      IN /\ Last(w).code # 200 => db.items = pre[w].db.items
         /\ q <= 0 => resp[w] = << Response(400, "Quantity must be greater than zero", 0) >>
         /\ (q > 0 /\ (~IsOwner(pre[w].db, o, req[w].user) \/ before = {})) =>
              (Len(resp[w]) = 1 /\ Last(w).code = 404)
         /\ (q > 0 /\ IsOwner(pre[w].db, o, req[w].user) /\ before # {} /\ NoStoreError(w)) =>
              /\ resp[w] = << Response(200, "Product quantity updated successfully", 0) >>
              /\ ItemsAt(db, o, p) = {OrderProduct(o, p, q)}
              /\ db.items \ ItemsAt(db, o, p) = pre[w].db.items \ before

\* A successful update that replaced quantity 2 by quantity 1.
C14_Witness ==
  \E w \in Workers :
    /\ Finished(w, "UpdateProductQuantity")
    /\ Last(w).code = 200
    /\ req[w].quantity = 1
    /\ \E it \in ItemsAt(pre[w].db, req[w].order, req[w].product) : it.quantity = 2

\* C15: every line item has quantity > 0 in every reachable state.
C15_QuantitiesPositive == \A it \in db.items : it.quantity > 0

\* The credential verifies at clock reading t: signed with the trusted key
\* and its expiry (a whole second) not passed on the verifier's clock.
Verifies(token, t) == token.signed /\ ~(t \div Second > token.exp)
\* Milliseconds that remain before the credential's expiry at reading t.
Remaining(token, t) == token.exp * Second - t

\* C16: Refresh answers Unauthenticated and issues nothing when the
\* credential does not verify; for a credential that verifies it answers
\* RefreshNotYetEligible exactly when more than 120 s remain before the
\* expiry at its eligibility check, and otherwise issues a new credential.
C16_RefreshEligibility ==
  \A w \in Workers :
    Finished(w, "Refresh") =>
      IF ~Verifies(req[w].token, loc[w].parsedAt)
      THEN /\ resp[w] = << Response(401, "unauthorized", 0) >>
           /\ loc[w].newToken = NoToken
      ELSE IF Remaining(req[w].token, loc[w].checkedAt) > 120 * Second
      THEN /\ resp[w] = << Response(400, "token not expired enough", 0) >>
           /\ loc[w].newToken = NoToken
      ELSE /\ resp[w] = << Response(200, "token", 0) >>
           /\ loc[w].newToken # NoToken

\* A credential refreshed with exactly 120 s left.
C16_Witness ==
  \E w \in Workers :
    /\ Finished(w, "Refresh")
    /\ Remaining(req[w].token, loc[w].checkedAt) = 120 * Second
    /\ Last(w).code = 200

\* C17: a credential issued by Refresh carries the userID, username and
\* role of the one presented and a strictly later expiry.
C17_RefreshKeepsIdentity ==
  \A w \in Workers :
    (Finished(w, "Refresh") /\ Last(w).code = 200) =>
      /\ loc[w].newToken.userID = req[w].token.userID
      /\ loc[w].newToken.username = req[w].token.username
      /\ loc[w].newToken.role = req[w].token.role
      /\ loc[w].newToken.signed
      /\ loc[w].newToken.exp > req[w].token.exp

\* An admin's credential refreshed in its last second.
C17_Witness ==
  \E w \in Workers :
    /\ Finished(w, "Refresh")
    /\ Last(w).code = 200
    /\ req[w].token.role = "admin"
    /\ loc[w].newToken.role = "admin"
    /\ Remaining(req[w].token, loc[w].checkedAt) < Second

\* The operations the routing table puts behind the admin role.
AdminGated ==
  {"CreateProduct", "UpdateProduct", "DeleteProduct", "UpdateProductsManufacturer",
   "DeleteOrderAdmin", "UpdateUserRole", "DeleteUser"}

\* Worker w serves an admin-gated request whose credential is not admin's.
GatedOut(w) == req[w].op \in AdminGated /\ req[w].role # "admin"

\* C18: an admin-gated request whose role claim is not "admin" is answered
\* Forbidden; every step taken for it leaves the tables unchanged and ends
\* the request, so the operation's handler never runs.
C18_RoleRequired ==
  /\ [](\A w \in Workers :
          (pc[w] = "done" /\ GatedOut(w)) =>
            resp[w] = << Response(403, "forbidden", 0) >>)
  /\ [][\A w \in Workers :
          (GatedOut(w) /\ pc[w] \notin {"idle", "done"} /\ pc'[w] # pc[w]) =>
            (db' = db /\ seq' = seq /\ tx' = tx /\ pc'[w] = "done")]_vars

\* A user-role credential asking to delete an existing user; refused.
C18_Witness ==
  \E w \in Workers :
    /\ Finished(w, "DeleteUser")
    /\ req[w].role = "user"
    /\ req[w].target \in DOMAIN db.users
    /\ db.users[req[w].target].role = "user"
    /\ Last(w).code = 403

\* The product rows with every manufacturer set to m.
AllMadeBy(products, m) ==
  [p \in DOMAIN products |-> [products[p] EXCEPT !.manufacturer = m]]

\* Worker w serves a bulk manufacturer update that got past the role check.
BulkUpdate(w) ==
  /\ req[w].op = "UpdateProductsManufacturer"
  /\ req[w].role = "admin"

\* C19: when the bulk manufacturer update has returned, either it answered
\* success and every product row has the requested manufacturer, or it
\* answered failure and every product row is as before the call; and each
\* of its steps changes either no product row or all of them at once.
C19_BulkUpdateAllOrNothing ==
  /\ [](\A w \in Workers :
          (pc[w] = "done" /\ BulkUpdate(w)) =>
            \/ /\ Last(w).code = 200
               /\ db.products = AllMadeBy(pre[w].db.products, req[w].body.manufacturer)
            \/ /\ Last(w).code # 200
               /\ db.products = pre[w].db.products)
  /\ [][\A w \in Workers :
          (BulkUpdate(w) /\ pc[w] \notin {"idle", "done"} /\ pc'[w] # pc[w]) =>
            \/ db'.products = db.products
            \/ db'.products = AllMadeBy(db.products, req[w].body.manufacturer)]_vars

\* A bulk update that answered success on two products of another maker.
C19_Witness ==
  \E w \in Workers :
    /\ pc[w] = "done"
    /\ BulkUpdate(w)
    /\ Last(w).code = 200
    /\ Cardinality(DOMAIN db.products) >= 2
    /\ \A p \in DOMAIN db.products : db.products[p].manufacturer = "nova"
    /\ \A p \in DOMAIN pre[w].db.products : pre[w].db.products[p].manufacturer # "nova"

\* C20: a catalog list read whose store call did not complete within the
\* 2 s deadline answers DeadlineExceeded, and nothing else.
C20_TimeoutIsDeadlineExceeded ==
  \A w \in Workers :
    (/\ pc[w] = "done"
     /\ req[w].op \in {"GetProductsWithTimeout", "GetCategoriesWithTimeout"}
     /\ loc[w].timedOut) =>
      resp[w] = << Response(408, "Request timed out", 0) >>

\* Worker w has finished an AddProductToOrder on (o, p) that found a line
\* item of quantity n and answered success.
Merged(w, o, p, n) ==
  /\ Finished(w, "AddProductToOrder")
  /\ req[w].order = o /\ req[w].product = p
  /\ loc[w].quantity = n
  /\ Last(w) = Response(200, "Product quantity updated", 0)

\* C21: an AddProductToOrder that merges into an existing line item writes
\* the quantity it read at its lookup plus its own increment, whatever was
\* written to the line item since the lookup; so of two overlapping merges
\* that both read n, the later write discards the earlier increment.
C21_MergeWritesWhatItRead ==
  [][\A w \in Workers :
       (pc[w] = "ap_save" /\ pc'[w] = "done" /\ resp'[w][Len(resp'[w])].code = 200) =>
         ItemsAt(db', req[w].order, req[w].product)
           = {OrderProduct(req[w].order, req[w].product,
                           loc[w].quantity + req[w].quantity)}]_vars

\* Two overlapping adds of 1 and 2 to a line item of quantity 2 both
\* answered success, and the stored quantity is 3 or 4, not 5.
C21_Witness ==
  \E o \in OrderIdArgs, p \in ProductIdArgs :
    /\ Merged(1, o, p, 2) /\ req[1].quantity = 1
    /\ Merged(2, o, p, 2) /\ req[2].quantity = 2
    /\ \E it \in ItemsAt(db, o, p) : it.quantity \in {3, 4}

\* ------------------------------------------------------------------- C22
\* Orders 1 and 2 exist when the shop is in use, so an id of OrderIdArgs that
\* no order holds is the id of a deleted order.
Deleted(d, o) == o \in OrderIdArgs /\ o \notin DOMAIN d.orders

\* A finished request of OrderOps that arrived after its order was deleted.
OnDeleted(w) ==
  /\ pc[w] = "done" /\ req[w].op \in OrderOps
  /\ Deleted(pre[w].db, req[w].order)

\* C22 as stated: every later operation on a deleted order answers NotFound.
C22_DeletedAnswersNotFound ==
  \A w \in Workers : OnDeleted(w) => resp[w] = <<Response(404, "Order not found", 0)>>

\* C22, amended: a deleted order stays deleted and never has a line item, and
\* every later operation on it answers NotFound and changes nothing, except
\* UpdateLineItemQuantity with a quantity of zero or less, which answers
\* InvalidArgument before it looks the order up.
C22_DeletedIsTerminal ==
  /\ [](\A w \in Workers :
          OnDeleted(w) =>
            /\ db = pre[w].db
            /\ resp[w] = IF req[w].op = "UpdateProductQuantity" /\ req[w].quantity <= 0
                         THEN <<Response(400, "Quantity must be greater than zero", 0)>>
                         ELSE <<Response(404, "Order not found", 0)>>)
  /\ [](\A o \in OrderIdArgs : Deleted(db, o) => ItemsOf(db, o) = {})
  /\ [][\A o \in OrderIdArgs : Deleted(db, o) => Deleted(db', o)]_vars

C22_Witness ==
  \E w \in Workers :
    /\ OnDeleted(w) /\ req[w].op = "AddProductToOrder"
    /\ Last(w).code = 404
    /\ seq.orders > 2

Positions(s, lo, hi) ==
  SubSeq(s, (IF lo < 0 THEN 0 ELSE lo) + 1, (IF hi > Len(s) - 1 THEN Len(s) - 1 ELSE hi) + 1)

\* What the listing of worker w is to return for its numbers page and limit.
IsThePage(w, page, limit) ==
  /\ resp[w] = <<Response(200, "orders", 0)>>
  /\ loc[w].total = Cardinality(Matching(pre[w].db, req[w].user_id, req[w].order_id))
  /\ Len(loc[w].orders) <= limit
  /\ \E s \in Orderings(pre[w].db, Matching(pre[w].db, req[w].user_id, req[w].order_id),
                        req[w].sort, IF req[w].direction = "desc" THEN "desc" ELSE "asc") :
       loc[w].orders = Positions(s, (page - 1) * limit, page * limit - 1)
  /\ db = pre[w].db

\* C24 as stated: barring a store error, AdminListOrders with the numbers
\* page and limit reports the count of the matching orders as total, returns
\* at most limit orders, those at the positions (page-1)*limit .. page*limit-1
\* of the matching orders in the requested order (a direction other than asc
\* or desc taken as asc), and changes no state.
C24_ListingIsThePage ==
  \A w \in Workers :
    (/\ Finished(w, "GetAllOrders") /\ NoStoreError(w)
     /\ Atoi(req[w].page).ok /\ Atoi(req[w].limit).ok) =>
      IsThePage(w, Atoi(req[w].page).val, Atoi(req[w].limit).val)

\* ------------------------------------------------------------------- C25
MultiRowOps ==
  {"CreateOrder", "CreateReview", "UpdateProductsManufacturer", "DeleteSelf",
   "DeleteUser", "DeleteOrderAdmin", "DeleteOrder"}

\* C25 as stated: in every multi-row mutation the store changes only when the
\* handler's open transaction commits; a transaction that was rolled back is
\* followed by the return, never by a Commit; and no handler returns with
\* its transaction still open.
C25_TransactionProtocol ==
  /\ [][\A w \in Workers :
          (req[w].op \in MultiRowOps /\ pc'[w] # pc[w] /\ db' # db) =>
            (tx[w].status = "open" /\ tx'[w].status = "committed")]_vars
  /\ [](\A w \in Workers :
          (req[w].op \in MultiRowOps /\ tx[w].status = "rolledback") => pc[w] = "done")
  /\ [](\A w \in Workers :
          (req[w].op \in MultiRowOps /\ pc[w] = "done") => tx[w].status # "open")

\* ------------------------------------------------------------------- C26
UsernamesUnique ==
  \A u, v \in DOMAIN db.users : db.users[u].username = db.users[v].username => u = v

\* A finished Register or UpdateUserName whose body passes validation and
\* that met no store error.
NamingDone(w) ==
  /\ pc[w] = "done" /\ req[w].op \in {"Register", "UpdateUserName"}
  /\ NoStoreError(w)
  /\ Len(req[w].username) >= 2
  /\ req[w].op = "Register" => Len(req[w].password) >= 6

\* C26 as stated: usernames are unique in every state, and a Register or
\* UpdateUserName request, also one that overlaps another, either succeeds
\* or fails with Conflict as its only answer (a request answered with
\* Conflict has created or changed no row).
C26_TakenIsConflict ==
  /\ UsernamesUnique
  /\ \A w \in Workers :
       NamingDone(w) =>
         \/ resp[w] \in {<<Response(201, "user registered successfully", 0)>>,
                         <<Response(200, "User name updated successfully", 0)>>}
         \/ /\ resp[w][1].code = 409
            /\ \A i \in DOMAIN resp[w] : resp[w][i].code \notin {200, 201}

\* ------------------------------------------------------------------- C27
\* In every state, also while a line-item write overlaps the removal of its
\* order, every line item belongs to an order that exists.
C27_ItemsHaveOrders ==
  \A it \in db.items : it.orderID \in DOMAIN db.orders

\* An add that passed the ownership check before its order was removed, and
\* was then refused by the store.
C27_Witness ==
  \E w \in Workers :
    /\ Finished(w, "AddProductToOrder")
    /\ loc[w].order # 0
    /\ loc[w].order \notin DOMAIN db.orders
    /\ NoStoreError(w)
    /\ Last(w).code = 500

\* ------------------------------------------------------------------- C28
\* C28 as stated: in every state, also with overlapping CreateReview
\* requests, no two reviews have the same user and the same product.
C28_OneReviewPerPair ==
  \A r1, r2 \in DOMAIN db.reviews :
    (db.reviews[r1].userID = db.reviews[r2].userID
       /\ db.reviews[r1].productID = db.reviews[r2].productID) => r1 = r2

\* ------------------------------------------------------------------- C29
\* C29 as stated: under every interleaving of AdminDeleteUser and DeleteSelf
\* with UpdateUserRole, a step that removes a User row finds the row's stored
\* role to be "user".
C29_OnlyUsersRemoved ==
  [][\A u \in DOMAIN db.users :
       u \notin DOMAIN db'.users => db.users[u].role = "user"]_vars

\* ------------------------------------------------------------------- C30
\* Users 1 and 2 exist when the shop is in use and ids are not reissued, so
\* an id of ClaimUsers that no user holds is the id of a deleted account.
\* In every state, also while CreateOrder or AddProductToOrder runs with the
\* deleted user's credential, no order belongs to a deleted account and every
\* line item belongs to an order of an account that exists.
C30_DeletedUserHasNoOrders ==
  \A u \in ClaimUsers :
    u \notin DOMAIN db.users =>
      /\ \A o \in DOMAIN db.orders : db.orders[o] # u
      /\ \A it \in db.items :
           it.orderID \in DOMAIN db.orders /\ db.orders[it.orderID] # u

\* A CreateOrder that arrived while its user still existed and was refused
\* because the account was deleted meanwhile.
C30_Witness ==
  \E w \in Workers :
    /\ Finished(w, "CreateOrder")
    /\ req[w].user \in DOMAIN pre[w].db.users
    /\ req[w].user \notin DOMAIN db.users
    /\ NoStoreError(w)
    /\ Last(w).code = 500

\* ------------------------------------------------------------------- C31
\* C31 as stated: the step by which CreateReview's writes reach the store
\* leaves the set of products as it is and changes nothing but the rating of
\* the reviewed product: every other field of every product keeps the value
\* stored just before, whoever wrote it.
C31_OnlyRatingChanges ==
  [][\A w \in Workers :
       (req[w].op = "CreateReview" /\ pc[w] = "cr_commit" /\ pc'[w] = "done") =>
         /\ DOMAIN db'.products = DOMAIN db.products
         /\ \A p \in DOMAIN db.products :
              /\ [db'.products[p] EXCEPT !.rating = db.products[p].rating] = db.products[p]
              /\ p # req[w].product => db'.products[p] = db.products[p]]_vars

\* ------------------------------------------------------------------- C32
\* C32 as stated: a handler that has returned has written exactly one
\* response, and a handler that has written an error response has returned
\* (it reads, writes and reports nothing after its first error).
C32_OneResponse ==
  /\ [](\A w \in Workers : pc[w] = "done" => Len(resp[w]) = 1)
  /\ [](\A w \in Workers :
          (resp[w] # <<>> /\ resp[w][1].code >= 400) => pc[w] = "done")

====
